---- MODULE Spec2Model ----
(***************************************************************************)
(* Term-aware chunked translation pipeline of medicalterm--plus:           *)
(*   token estimator and text chunker   (translationChunkUtils)            *)
(*   term segmenter and orchestrator    (services/textProcessing.ts)       *)
(*   resilient completion wrapper       (services/llm)                     *)
(* A text is a sequence of one-character strings.                          *)
(***************************************************************************)
EXTENDS Integers, Sequences, FiniteSets, TLC

VARIABLES
    chunkText,      \* splitTextIntoChunks: argument text
    chunkBudget,    \* splitTextIntoChunks: argument maxTokensPerChunk
    chunks,         \* splitTextIntoChunks: returned list
    chunkPc,        \* "call" before the call, "done" after it returned
    tokText1,       \* getTokenCount: a text
    tokText2,       \* getTokenCount: a non-empty text appended to it
    tokCount1,      \* getTokenCount(tokText1)
    tokCount12,     \* getTokenCount(tokText1 + tokText2)
    tokPc,
    compConfig,     \* getCompletion: config (provider, apiKey)
    envApiKey,      \* process.env.API_KEY ("" when not set)
    compPc,         \* "entry", "loop", "invoke", "returned", "failed"
    attempt,        \* the loop variable of getCompletion
    lastError,      \* the error caught last, NoError before any
    providerCalls,  \* provider requests sent so far
    outcomes,       \* per request: answered, or the error it failed with
    waits,          \* the sleeps taken so far, in ms
    compResult,     \* the text returned
    compError,      \* the message of the Error thrown to the caller
    segText,        \* buildTermSegments: argument text
    segTerms,       \* buildTermSegments: argument terms
    segMode,        \* buildTermSegments: options.mode
    finalMatches,   \* buildTermSegments: the accepted matches, by start offset
    segments,       \* buildTermSegments: returned list
    segPc,          \* "call", "done", or "hang" when the call never returns
    trText,         \* translateText: argument sourceText
    trMode,         \* translateText: argument mode
    trMaxTokens,    \* translateText: options.maxTokensPerChunk
    trTerms,        \* translateText: options.relevantTerms (term ids)
    trPc,           \* "start", "await", "returned", "failed"
    trStep,         \* the step whose completion call is awaited
    trChunks,       \* multi chunk: chunks
    trI,            \* multi chunk: the loop variable i
    trCalls,        \* the getCompletion calls made so far, with their inputs
    trProgress,     \* the onProgress statuses so far
    trDraft,        \* draft (of the current chunk)
    trReflection,   \* reflection (of the current chunk)
    trImproved,     \* improved (of the current chunk)
    trResults,      \* multi chunk: results
    trReflections,  \* multi chunk: reflections
    trAllAlignments,\* multi chunk: allAlignments
    trSourceOffset, \* multi chunk: sourceOffset
    trTargetOffset, \* multi chunk: targetOffset
    trResult,       \* the TranslationResult the promise resolved with
    trError,        \* the error the promise was rejected with
    trAlignLog,     \* per Align call: its chunk and what the call gave
    inputText,      \* TranslationAssistant: state inputText
    allTerms,       \* TranslationAssistant: allTerms
    auth,           \* TranslationAssistant: whether the store holds auth
    requestRef,     \* requestRef.current
    requests,       \* the handleTranslate invocations that went on to translate
    translatedText, \* state translatedText
    reflectionNotes,\* state reflectionNotes
    uiAlignments,   \* state alignments: None (null) or Some(list)
    uiError,        \* state error: None (null) or Some(message)
    isLoading,      \* state isLoading
    stepStatus,     \* state stepStatus
    frozen,         \* TRUE when a handler never returns
    sizeTotal,      \* calculateChunkSize: argument totalTokens
    sizeTarget,     \* calculateChunkSize: argument targetPerChunk
    sizeResult,     \* calculateChunkSize: returned number
    sizePc

chunkVars == <<chunkText, chunkBudget, chunks, chunkPc>>
tokVars == <<tokText1, tokText2, tokCount1, tokCount12, tokPc>>
compVars == <<compConfig, envApiKey, compPc, attempt, lastError, providerCalls,
              outcomes, waits, compResult, compError>>
segVars == <<segText, segTerms, segMode, finalMatches, segments, segPc>>
trInputs == <<trText, trMode, trMaxTokens, trTerms>>
trLocals == <<trDraft, trReflection, trImproved>>
trLoop == <<trChunks, trI, trResults, trReflections, trAllAlignments,
            trSourceOffset, trTargetOffset>>
trVars == <<trInputs, trPc, trStep, trCalls, trProgress, trLocals, trLoop,
            trResult, trError, trAlignLog>>
uiVars == <<inputText, allTerms, auth, requestRef, requests, translatedText,
            reflectionNotes, uiAlignments, uiError, isLoading, stepStatus, frozen>>
sizeVars == <<sizeTotal, sizeTarget, sizeResult, sizePc>>
vars == <<chunkVars, tokVars, compVars, segVars, trVars, uiVars, sizeVars>>
\* What a component leaves alone: the variables of the others.
notChunkVars == <<tokVars, compVars, segVars, trVars, uiVars,
                   sizeVars>>
notTokVars == <<chunkVars, compVars, segVars, trVars, uiVars,
                 sizeVars>>
notCompVars == <<chunkVars, tokVars, segVars, trVars, uiVars,
                  sizeVars>>
notSegVars == <<chunkVars, tokVars, compVars, trVars, uiVars,
                 sizeVars>>
notTrVars == <<chunkVars, tokVars, compVars, segVars, uiVars,
                sizeVars>>
notUiVars == <<chunkVars, tokVars, compVars, segVars, trVars,
                sizeVars>>
notSizeVars == <<chunkVars, tokVars, compVars, segVars, trVars, uiVars>>

(***************************************************************************)
(* Bounds of the model.                                                    *)
(***************************************************************************)
MaxChunkTextLen == 4
MaxBudget == 3
MaxTokText1Len == 3
MaxTokText2Len == 2
MaxSegTextLen == 4
MaxTerms == 2
MaxTrTextLen == 2
MaxTrBudget == 2
MaxInputTextLen == 2
MaxRequests == 2
MaxTotalTokens == 12
MaxTargetPerChunk == 8

(***************************************************************************)
(* Characters.  "a" is a Latin letter (\w), "Z" stands for a CJK           *)
(* ideograph (U+4E00..U+9FA5), " " and "\n" are whitespace, "." is a       *)
(* sentence delimiter and "," a clause delimiter.                          *)
(***************************************************************************)
ChunkAlphabet == {"a", "Z", " ", "\n", ".", ","}

IsCjk(c) == c = "Z"
IsWordChar(c) == c \in {"a", "b", "s", "A"}
IsSpace(c) == c \in {" ", "\n"}
ParagraphDelims == {"\n"}
SentenceDelims == {"."}
ClauseDelims == {","}

Front(s) == SubSeq(s, 1, Len(s) - 1)
Last(s) == s[Len(s)]

RECURSIVE SeqsUpTo(_, _)
SeqsUpTo(S, n) ==
    IF n = 0 THEN {<<>>}
    ELSE LET shorter == SeqsUpTo(S, n - 1)
         IN  shorter \cup {Append(s, c) : s \in {t \in shorter : Len(t) = n - 1}, c \in S}

RECURSIVE Concat(_)
Concat(ss) == IF ss = <<>> THEN <<>> ELSE Concat(Front(ss)) \o Last(ss)

(***************************************************************************)
(* getTokenCount                                                           *)
(***************************************************************************)
\* text.replace(cjkRegex, ' ').replace(/[^\w\s]/g, ' ')
nonCjkText(text) ==
    [i \in 1..Len(text) |->
        IF IsCjk(text[i]) THEN " "
        ELSE IF ~IsWordChar(text[i]) /\ ~IsSpace(text[i]) THEN " "
        ELSE text[i]]

\* nonCjkText.trim().split(/\s+/).filter(w => w.length > 0).length
numWords(t) ==
    Cardinality({i \in 1..Len(t) : ~IsSpace(t[i]) /\ (i = 1 \/ IsSpace(t[i - 1]))})

numCjk(text) == Cardinality({i \in 1..Len(text) : IsCjk(text[i])})

\* The sign slip: the word estimate subtracted instead of added.
getTokenCountSignSlip(text) ==
    IF text = <<>> THEN 0
    ELSE LET v == 15 * numCjk(text) - 13 * numWords(nonCjkText(text))
         IN  IF v <= 0 THEN -((-v) \div 10) ELSE (v + 9) \div 10

\* Math.ceil(numCjk * 1.5 + numWords * 1.3), in tenths
getTokenCount(text) ==
    IF text = <<>> THEN 0
    ELSE (15 * numCjk(text) + 13 * numWords(nonCjkText(text)) + 9) \div 10

(***************************************************************************)
(* String.prototype.split with a capturing group /(d+)/: the pieces        *)
(* between the maximal runs of delimiters alternate with the runs; an      *)
(* empty piece stands before a leading run and after a trailing one.       *)
(***************************************************************************)
RECURSIVE Runs(_, _)
Runs(s, D) ==
    IF s = <<>> THEN <<>>
    ELSE LET r == Runs(Front(s), D)
             c == Last(s)
         IN  IF r # <<>> /\ ((Last(r)[1] \in D) <=> (c \in D))
             THEN [r EXCEPT ![Len(r)] = @ \o <<c>>]
             ELSE Append(r, <<c>>)

JsSplit(s, D) ==
    IF s = <<>> THEN << <<>> >>
    ELSE LET r == Runs(s, D)
         IN  (IF Head(r)[1] \in D THEN << <<>> >> ELSE <<>>)
             \o r
             \o (IF Last(r)[1] \in D THEN << <<>> >> ELSE <<>>)

\* /^[d]+$/.test(curr)
IsDelimRun(curr, D) == curr # <<>> /\ \A i \in 1..Len(curr) : curr[i] \in D

\* The reduce of splitSegmentRecursively: a delimiter run is appended to the
\* part before it, and is dropped when there is none.
RECURSIVE AttachDelims(_, _)
AttachDelims(pieces, D) ==
    IF pieces = <<>> THEN <<>>
    ELSE LET acc == AttachDelims(Front(pieces), D)
             curr == Last(pieces)
         IN  IF IsDelimRun(curr, D)
             THEN IF Len(acc) > 0 THEN [acc EXCEPT ![Len(acc)] = @ \o curr] ELSE acc
             ELSE IF curr # <<>> THEN Append(acc, curr) ELSE acc

\* The reduce of splitTextIntoChunks: leading newlines are kept as a part.
RECURSIVE paraSegments(_)
paraSegments(pieces) ==
    IF pieces = <<>> THEN <<>>
    ELSE LET acc == paraSegments(Front(pieces))
             curr == Last(pieces)
             idx == Len(pieces) - 1
         IN  IF idx > 0 /\ IsDelimRun(curr, ParagraphDelims)
             THEN IF Len(acc) > 0 THEN [acc EXCEPT ![Len(acc)] = @ \o curr]
                  ELSE Append(acc, curr)
             ELSE IF curr # <<>> THEN Append(acc, curr) ELSE acc

HasChar(text, D) == \E i \in 1..Len(text) : text[i] \in D

(***************************************************************************)
(* splitSegmentRecursively / regroupChunks                                 *)
(***************************************************************************)
RECURSIVE splitSegmentRecursively(_, _)
RECURSIVE regroupLoop(_, _, _, _, _)

\* The for loop of regroupChunks from part i on, with the chunks pushed so
\* far and the running chunk.
regroupLoop(parts, maxLimit, i, acc, current) ==
    IF i > Len(parts)
    THEN IF current # <<>> THEN Append(acc, current) ELSE acc
    ELSE LET part == parts[i] IN
         IF getTokenCount(current \o part) <= maxLimit
         THEN regroupLoop(parts, maxLimit, i + 1, acc, current \o part)
         ELSE LET pushed == IF current # <<>> THEN Append(acc, current) ELSE acc
              IN  IF getTokenCount(part) > maxLimit
                  THEN regroupLoop(parts, maxLimit, i + 1,
                                   pushed \o splitSegmentRecursively(part, maxLimit), <<>>)
                  ELSE regroupLoop(parts, maxLimit, i + 1, pushed, part)

regroupChunks(parts, maxLimit) == regroupLoop(parts, maxLimit, 1, <<>>, <<>>)

\* The binary split given up: an over-budget run with no delimiter is
\* returned whole.
splitSegmentNoHalving(text, maxLimit) ==
    IF getTokenCount(text) <= maxLimit THEN <<text>>
    ELSE LET sentences == AttachDelims(JsSplit(text, SentenceDelims), SentenceDelims)
             clauses == AttachDelims(JsSplit(text, ClauseDelims), ClauseDelims)
         IN  IF HasChar(text, SentenceDelims) /\ Len(sentences) > 1
             THEN regroupChunks(sentences, maxLimit)
             ELSE IF HasChar(text, ClauseDelims) /\ Len(clauses) > 1
             THEN regroupChunks(clauses, maxLimit)
             ELSE <<text>>

\* The sentence and clause splits left out: an over-budget text is halved.
splitSegmentHalvingOnly(text, maxLimit) ==
    IF getTokenCount(text) <= maxLimit \/ Len(text) \div 2 = 0 THEN <<text>>
    ELSE splitSegmentRecursively(SubSeq(text, 1, Len(text) \div 2), maxLimit)
         \o splitSegmentRecursively(SubSeq(text, Len(text) \div 2 + 1, Len(text)),
                                    maxLimit)

splitSegmentRecursively(text, maxLimit) ==
    IF getTokenCount(text) <= maxLimit THEN <<text>>
    ELSE LET sentences == AttachDelims(JsSplit(text, SentenceDelims), SentenceDelims)
             clauses == AttachDelims(JsSplit(text, ClauseDelims), ClauseDelims)
             mid == Len(text) \div 2
         IN  IF HasChar(text, SentenceDelims) /\ Len(sentences) > 1
             THEN regroupChunks(sentences, maxLimit)
             ELSE IF HasChar(text, ClauseDelims) /\ Len(clauses) > 1
             THEN regroupChunks(clauses, maxLimit)
             ELSE IF mid = 0 THEN <<text>>
             ELSE splitSegmentRecursively(SubSeq(text, 1, mid), maxLimit)
                  \o splitSegmentRecursively(SubSeq(text, mid + 1, Len(text)), maxLimit)

\* The parts that the for loop of regroupChunks, from part i on with the
\* running chunk current, hands to splitSegmentRecursively (line 122); the
\* same for the loop over the paragraphs (line 166)
RECURSIVE partsSplit(_, _, _, _)
partsSplit(parts, maxLimit, i, current) ==
    IF i > Len(parts) THEN {}
    ELSE LET part == parts[i] IN
         IF getTokenCount(current \o part) <= maxLimit
         THEN partsSplit(parts, maxLimit, i + 1, current \o part)
         ELSE IF getTokenCount(part) > maxLimit
              THEN {part} \cup partsSplit(parts, maxLimit, i + 1, <<>>)
              ELSE partsSplit(parts, maxLimit, i + 1, part)

\* The halving without the test of line 94: a text of one character is cut
\* into the empty text and itself
recursiveCallsUnguardedHalving(text, maxLimit) ==
    IF getTokenCount(text) <= maxLimit THEN {}
    ELSE LET sentences == AttachDelims(JsSplit(text, SentenceDelims), SentenceDelims)
             clauses == AttachDelims(JsSplit(text, ClauseDelims), ClauseDelims)
             mid == Len(text) \div 2
         IN  IF HasChar(text, SentenceDelims) /\ Len(sentences) > 1
             THEN partsSplit(sentences, maxLimit, 1, <<>>)
             ELSE IF HasChar(text, ClauseDelims) /\ Len(clauses) > 1
             THEN partsSplit(clauses, maxLimit, 1, <<>>)
             ELSE {SubSeq(text, 1, mid), SubSeq(text, mid + 1, Len(text))}

\* The texts that one activation of splitSegmentRecursively(text, maxLimit)
\* calls itself on, through regroupChunks (lines 70-71, 86-87) or by the
\* halving (lines 93-102)
recursiveCalls(text, maxLimit) ==
    IF getTokenCount(text) <= maxLimit THEN {}
    ELSE LET sentences == AttachDelims(JsSplit(text, SentenceDelims), SentenceDelims)
             clauses == AttachDelims(JsSplit(text, ClauseDelims), ClauseDelims)
             mid == Len(text) \div 2
         IN  IF HasChar(text, SentenceDelims) /\ Len(sentences) > 1
             THEN partsSplit(sentences, maxLimit, 1, <<>>)
             ELSE IF HasChar(text, ClauseDelims) /\ Len(clauses) > 1
             THEN partsSplit(clauses, maxLimit, 1, <<>>)
             ELSE IF mid = 0 THEN {}
             ELSE {SubSeq(text, 1, mid), SubSeq(text, mid + 1, Len(text))}

\* The paragraphs splitTextIntoChunks hands to splitSegmentRecursively
firstCalls(text, maxTokensPerChunk) ==
    IF getTokenCount(text) <= maxTokensPerChunk THEN {}
    ELSE partsSplit(paraSegments(JsSplit(text, ParagraphDelims)), maxTokensPerChunk,
                    1, <<>>)

(***************************************************************************)
(* splitTextIntoChunks                                                     *)
(***************************************************************************)
RECURSIVE paraLoop(_, _, _, _, _)
\* The for loop over the paragraphs from paragraph i on.
paraLoop(paras, maxTokensPerChunk, i, acc, currentChunk) ==
    IF i > Len(paras)
    THEN IF currentChunk # <<>> THEN Append(acc, currentChunk) ELSE acc
    ELSE LET para == paras[i] IN
         IF getTokenCount(currentChunk \o para) <= maxTokensPerChunk
         THEN paraLoop(paras, maxTokensPerChunk, i + 1, acc, currentChunk \o para)
         ELSE LET pushed == IF currentChunk # <<>> THEN Append(acc, currentChunk) ELSE acc
              IN  IF getTokenCount(para) > maxTokensPerChunk
                  THEN paraLoop(paras, maxTokensPerChunk, i + 1,
                                pushed \o splitSegmentRecursively(para, maxTokensPerChunk), <<>>)
                  ELSE paraLoop(paras, maxTokensPerChunk, i + 1, pushed, para)

splitTextIntoChunks(text, maxTokensPerChunk) ==
    IF getTokenCount(text) <= maxTokensPerChunk THEN <<text>>
    ELSE paraLoop(paraSegments(JsSplit(text, ParagraphDelims)), maxTokensPerChunk,
                  1, <<>>, <<>>)

(***************************************************************************)
(* getCompletion: the resilient completion wrapper.                        *)
(* An error message is a sequence of words; msg.includes(m) is modelled    *)
(* as the message holding the word m.                                      *)
(***************************************************************************)
MAX_RETRIES == 3

NoError == [status |-> 0, code |-> 0, message |-> <<>>]

\* What a provider request can throw: the Error built at line 215 from a
\* response that is not ok (status set, the status in the message), the
\* 'unexpected format' Error, a network failure of fetch, and the SDK's
\* errors (a code, a quota marker in the message, or no message at all).
ProviderErrors ==
    { [status |-> 429, code |-> 0, message |-> <<"GLM", "API", "Error", "429">>],
      [status |-> 500, code |-> 0, message |-> <<"GLM", "API", "Error", "500">>],
      [status |-> 0, code |-> 429, message |-> <<"Too", "Many", "Requests">>],
      [status |-> 0, code |-> 0, message |-> <<"exceeded", "your", "quota">>],
      [status |-> 0, code |-> 0, message |-> <<"RESOURCE_EXHAUSTED">>],
      [status |-> 0, code |-> 0, message |-> <<"Failed", "to", "fetch">>],
      [status |-> 0, code |-> 403, message |-> <<>>] }

UnexpectedFormat ==
    [status |-> 0, code |-> 0,
     message |-> <<"API", "returned", "unexpected", "format">>]
UnsupportedProvider ==
    [status |-> 0, code |-> 0, message |-> <<"Unsupported", "provider">>]
MissingApiKey == <<"API", "Key", "is", "required">>
QUOTA_EXCEEDED == <<"QUOTA_EXCEEDED">>

Providers == {"gemini", "openai-compatible", "glm", "other"}
\* The text of a successful response; "undefined" is a response with no text.
ProviderTexts == {"undefined", "", "T"}

Includes(message, word) == \E i \in 1..Len(message) : message[i] = word

CodeWord(n) ==
    CASE n = 429 -> "429" [] n = 403 -> "403" [] n = 500 -> "500" [] OTHER -> "0"

\* error?.message || JSON.stringify(error)
ErrorMsg(error) ==
    IF error.message # <<>> THEN error.message
    ELSE <<"status", CodeWord(error.status), "code", CodeWord(error.code)>>

\* A classifier that reads the status field only.
isQuotaErrorStatusOnly(error) == error.status = 429

isQuotaError(error) ==
    \/ error.status = 429
    \/ error.code = 429
    \/ Includes(ErrorMsg(error), "429")
    \/ Includes(ErrorMsg(error), "quota")
    \/ Includes(ErrorMsg(error), "RESOURCE_EXHAUSTED")

\* lines 130-139: the key of the environment replaces the configured one
\* for the gemini provider.
EffectiveApiKey ==
    IF compConfig.provider = "gemini" /\ envApiKey # "" THEN envApiKey
    ELSE compConfig.apiKey

\* lines 141-148
Entry ==
    /\ compPc = "entry"
    /\ IF EffectiveApiKey = ""
       THEN /\ compPc' = "failed"
            /\ compError' = MissingApiKey
            /\ UNCHANGED attempt
       ELSE /\ compPc' = "loop"
            /\ attempt' = 0
            /\ UNCHANGED compError
    /\ UNCHANGED <<compConfig, envApiKey, lastError, providerCalls, outcomes, waits,
                   compResult, notCompVars>>

\* A backoff that grows by one second per retry.
LoopTopLinearBackoff ==
    /\ compPc = "loop"
    /\ attempt <= MAX_RETRIES
    /\ waits' = IF attempt > 0 THEN Append(waits, 1000 * attempt) ELSE waits
    /\ compPc' = "invoke"
    /\ UNCHANGED <<compConfig, envApiKey, attempt, lastError, providerCalls, outcomes,
                   compResult, compError, notCompVars>>

\* lines 148-153: the top of the loop body, with the backoff of a retry.
LoopTop ==
    /\ compPc = "loop"
    /\ attempt <= MAX_RETRIES
    /\ waits' = IF attempt > 0 THEN Append(waits, 1000 * 2 ^ (attempt - 1)) ELSE waits
    /\ compPc' = "invoke"
    /\ UNCHANGED <<compConfig, envApiKey, attempt, lastError, providerCalls, outcomes,
                   compResult, compError, notCompVars>>

\* The retry bound off by one: a quota failure of the last permitted attempt
\* is sent round the loop again instead of being surfaced.
CatchOffByOne(error) ==
    /\ lastError' = error
    /\ IF isQuotaError(error)
       THEN IF attempt <= MAX_RETRIES
            THEN /\ attempt' = attempt + 1
                 /\ compPc' = "loop"
                 /\ UNCHANGED compError
            ELSE /\ compPc' = "failed"
                 /\ compError' = QUOTA_EXCEEDED
                 /\ UNCHANGED attempt
       ELSE /\ compPc' = "failed"
            /\ compError' = ErrorMsg(error)
            /\ UNCHANGED attempt

\* A catch that retries whatever was thrown.
CatchRetryAnyError(error) ==
    /\ lastError' = error
    /\ IF attempt < MAX_RETRIES
       THEN /\ attempt' = attempt + 1
            /\ compPc' = "loop"
            /\ UNCHANGED compError
       ELSE /\ compPc' = "failed"
            /\ compError' = IF isQuotaError(error) THEN QUOTA_EXCEEDED ELSE ErrorMsg(error)
            /\ UNCHANGED attempt

\* lines 232-248: the catch block.
Catch(error) ==
    /\ lastError' = error
    /\ IF isQuotaError(error)
       THEN IF attempt < MAX_RETRIES
            THEN /\ attempt' = attempt + 1
                 /\ compPc' = "loop"
                 /\ UNCHANGED compError
            ELSE /\ compPc' = "failed"
                 /\ compError' = QUOTA_EXCEEDED
                 /\ UNCHANGED attempt
       ELSE /\ compPc' = "failed"
            /\ compError' = ErrorMsg(error)
            /\ UNCHANGED attempt

Failed(error) == [ok |-> FALSE, error |-> error, text |-> ""]
Answered(text) == [ok |-> TRUE, error |-> NoError, text |-> text]

\* lines 156-166 and 169-228: the request is answered with a text.
ProviderReturns ==
    /\ compPc = "invoke"
    /\ compConfig.provider # "other"
    /\ \E text \in ProviderTexts :
          /\ compConfig.provider = "gemini" \/ text # "undefined"
          /\ compResult' = (IF text = "undefined" THEN "" ELSE text)
          /\ outcomes' = Append(outcomes, Answered(text))
    /\ providerCalls' = providerCalls + 1
    /\ compPc' = "returned"
    /\ UNCHANGED <<compConfig, envApiKey, attempt, lastError, waits, compError,
                   notCompVars>>

\* lines 159, 195, 208-218: the request fails.
ProviderThrows ==
    /\ compPc = "invoke"
    /\ compConfig.provider # "other"
    /\ \E error \in ProviderErrors :
          /\ Catch(error)
          /\ outcomes' = Append(outcomes, Failed(error))
    /\ providerCalls' = providerCalls + 1
    /\ UNCHANGED <<compConfig, envApiKey, waits, compResult, notCompVars>>

\* lines 220-225: an answer of an OpenAI-compatible provider with no content.
ProviderAnswersNoContent ==
    /\ compPc = "invoke"
    /\ compConfig.provider \in {"openai-compatible", "glm"}
    /\ Catch(UnexpectedFormat)
    /\ providerCalls' = providerCalls + 1
    /\ outcomes' = Append(outcomes, Failed(UnexpectedFormat))
    /\ UNCHANGED <<compConfig, envApiKey, waits, compResult, notCompVars>>

\* line 230: no request is sent for a provider that is not supported.
ThrowUnsupported ==
    /\ compPc = "invoke"
    /\ compConfig.provider = "other"
    /\ Catch(UnsupportedProvider)
    /\ UNCHANGED <<compConfig, envApiKey, providerCalls, outcomes, waits, compResult,
                   notCompVars>>

(***************************************************************************)
(* The term segmenter: normalizeKey, findMatches, buildTermSegments.       *)
(* Offsets are 0-based and spans are [start, end), as in the code.         *)
(***************************************************************************)
SegAlphabet == {"a", "b", "s", " "}

Slice(text, start, end) == SubSeq(text, start + 1, end)

\* String.prototype.toLowerCase on the characters of the model
Lower(c) == IF c = "A" THEN "a" ELSE c

RECURSIVE TrimLeft(_)
TrimLeft(s) == IF s # <<>> /\ IsSpace(Head(s)) THEN TrimLeft(Tail(s)) ELSE s
RECURSIVE TrimRight(_)
TrimRight(s) == IF s # <<>> /\ IsSpace(Last(s)) THEN TrimRight(Front(s)) ELSE s

\* replace(/\s+/g, ' ')
RECURSIVE CollapseSpaces(_)
CollapseSpaces(s) ==
    IF s = <<>> THEN <<>>
    ELSE LET r == CollapseSpaces(Front(s))
             c == Last(s)
         IN  IF IsSpace(c)
             THEN IF Len(s) > 1 /\ IsSpace(s[Len(s) - 1]) THEN r ELSE Append(r, " ")
             ELSE Append(r, c)

normalizeKey(str) ==
    TrimRight(TrimLeft(CollapseSpaces([i \in 1..Len(str) |-> Lower(str[i])])))

(***************************************************************************)
(* A JS Map as the sequence of its entries in insertion order.             *)
(***************************************************************************)
MapHas(map, key) == \E i \in 1..Len(map) : map[i].key = key

MapSet(map, key, term) ==
    IF MapHas(map, key)
    THEN [i \in 1..Len(map) |->
             IF map[i].key = key THEN [key |-> key, term |-> term] ELSE map[i]]
    ELSE Append(map, [key |-> key, term |-> term])

(***************************************************************************)
(* Regular expressions of findMatches.  A pattern is a sequence of tokens: *)
(* a literal character, or one of the tokens below.                        *)
(***************************************************************************)
WsPlus == "\\s+"
WsStar == "\\s*"
WordBoundary == "\\b"
PluralSuffix == "(?:e?s)?"

\* escapeRegExp(key).replace(/\s+/g, '\\s+'), and in translation mode the
\* flexible parentheses
RECURSIVE PatternBody(_, _)
PatternBody(key, mode) ==
    IF key = <<>> THEN <<>>
    ELSE LET r == PatternBody(Front(key), mode)
             c == Last(key)
         IN  IF IsSpace(c)
             THEN IF Len(key) > 1 /\ IsSpace(key[Len(key) - 1]) THEN r
                  ELSE Append(r, WsPlus)
             ELSE IF mode = "translation" /\ c \in {"(", ")"}
             THEN r \o <<WsStar, c, WsStar>>
             ELSE Append(r, c)

\* lines 373-396
PatternStr(key, mode) ==
    LET isWordStart == key # <<>> /\ IsWordChar(Head(key))
        isWordEnd == key # <<>> /\ IsWordChar(Last(key))
    IN  IF mode = "translation"
        THEN (IF isWordStart THEN <<WordBoundary>> ELSE <<>>)
             \o PatternBody(key, mode)
             \o (IF isWordEnd THEN <<PluralSuffix, WordBoundary>> ELSE <<>>)
        ELSE PatternBody(key, mode)

\* The length of the run of whitespace of s after offset pos
RECURSIVE WsRun(_, _)
WsRun(s, pos) ==
    IF pos < Len(s) /\ IsSpace(s[pos + 1]) THEN 1 + WsRun(s, pos + 1) ELSE 0

\* \b at offset pos of s
IsBoundary(s, pos) ==
    (pos > 0 /\ IsWordChar(s[pos])) # (pos < Len(s) /\ IsWordChar(s[pos + 1]))

\* The offsets at which a match of pat[i..] that starts at offset pos of s can
\* end, in the order in which the backtracking matcher tries them (greedy
\* quantifiers first); flag i: characters are compared in lower case.
RECURSIVE Ends(_, _, _, _)
RECURSIVE EndsOfRuns(_, _, _, _, _, _)
EndsOfRuns(pat, s, i, pos, k, least) ==
    IF k < least THEN <<>>
    ELSE Ends(pat, s, i + 1, pos + k) \o EndsOfRuns(pat, s, i, pos, k - 1, least)

Ends(pat, s, i, pos) ==
    IF i > Len(pat) THEN <<pos>>
    ELSE LET tok == pat[i] IN
         IF tok = WsPlus THEN EndsOfRuns(pat, s, i, pos, WsRun(s, pos), 1)
         ELSE IF tok = WsStar THEN EndsOfRuns(pat, s, i, pos, WsRun(s, pos), 0)
         ELSE IF tok = WordBoundary
         THEN IF IsBoundary(s, pos) THEN Ends(pat, s, i + 1, pos) ELSE <<>>
         ELSE IF tok = PluralSuffix
         THEN (IF pos + 1 < Len(s) /\ Lower(s[pos + 1]) = "e" /\ Lower(s[pos + 2]) = "s"
               THEN Ends(pat, s, i + 1, pos + 2) ELSE <<>>)
              \o (IF pos < Len(s) /\ Lower(s[pos + 1]) = "s"
                  THEN Ends(pat, s, i + 1, pos + 1) ELSE <<>>)
              \o Ends(pat, s, i + 1, pos)
         ELSE IF pos < Len(s) /\ Lower(s[pos + 1]) = Lower(tok)
         THEN Ends(pat, s, i + 1, pos + 1)
         ELSE <<>>

NoMatch == -1
\* The end of the match of pat at offset pos of s, or NoMatch
MatchEnd(pat, s, pos) ==
    LET e == Ends(pat, s, 1, pos) IN IF e = <<>> THEN NoMatch ELSE e[1]

\* new RegExp(`^${pattern}$`, 'i').test(matchText)
MatchesWhole(pat, matchText) ==
    \E k \in 1..Len(Ends(pat, matchText, 1, 0)) :
        Ends(pat, matchText, 1, 0)[k] = Len(matchText)

(***************************************************************************)
(* Array.prototype.sort (stable) with the comparators of the code.         *)
(***************************************************************************)
\* by: "length" (b.length - a.length), "span" (longest first, then first
\* occurrence), "start" (a.start - b.start)
Before(by, a, b) ==
    CASE by = "length" -> a.length > b.length
      [] by = "span" -> \/ a.end - a.start > b.end - b.start
                        \/ (a.end - a.start = b.end - b.start /\ a.start < b.start)
      [] by = "start" -> a.start < b.start

RECURSIVE InsertSorted(_, _, _)
InsertSorted(by, sorted, x) ==
    IF sorted = <<>> THEN <<x>>
    ELSE IF Before(by, x, Head(sorted)) THEN <<x>> \o sorted
    ELSE <<Head(sorted)>> \o InsertSorted(by, Tail(sorted), x)

RECURSIVE SortedBy(_, _)
SortedBy(by, xs) ==
    IF xs = <<>> THEN <<>> ELSE InsertSorted(by, SortedBy(by, Front(xs)), Last(xs))

(***************************************************************************)
(* findMatches                                                             *)
(***************************************************************************)
\* lines 372-406: one descriptor per distinct pattern, in map order
RECURSIVE descriptorsOf(_, _)
descriptorsOf(termMap, mode) ==
    IF termMap = <<>> THEN <<>>
    ELSE LET ds == descriptorsOf(Front(termMap), mode)
             e == Last(termMap)
             patternStr == PatternStr(e.key, mode)
         IN  IF \E i \in 1..Len(ds) : ds[i].pattern = patternStr THEN ds
             ELSE Append(ds, [pattern |-> patternStr, length |-> Len(e.key),
                              term |-> e.term])

\* The alternation in map order: the sort by key length left out.
descriptorsUnsorted(termMap, mode) == descriptorsOf(termMap, mode)

\* line 411
descriptors(termMap, mode) == SortedBy("length", descriptorsOf(termMap, mode))

\* The first alternative of the master regex that matches at offset pos
FirstAlternative(ds, text, pos) ==
    IF \E i \in 1..Len(ds) : MatchEnd(ds[i].pattern, text, pos) # NoMatch
    THEN CHOOSE i \in 1..Len(ds) :
            /\ MatchEnd(ds[i].pattern, text, pos) # NoMatch
            /\ \A j \in 1..(i - 1) : MatchEnd(ds[j].pattern, text, pos) = NoMatch
    ELSE 0

\* descriptors.find(desc => new RegExp(`^${desc.pattern}$`, 'i').test(matchText))
matchedDescriptor(ds, matchText) ==
    IF \E i \in 1..Len(ds) : MatchesWhole(ds[i].pattern, matchText)
    THEN CHOOSE i \in 1..Len(ds) :
            /\ MatchesWhole(ds[i].pattern, matchText)
            /\ \A j \in 1..(i - 1) : ~MatchesWhole(ds[j].pattern, matchText)
    ELSE 0

\* lines 419-436: the exec loop from lastIndex on.  An empty match leaves
\* lastIndex where it is, and the loop finds it again for ever.
RECURSIVE execLoop(_, _, _, _)
execLoop(ds, text, lastIndex, matches) ==
    LET starts == {p \in lastIndex..Len(text) : FirstAlternative(ds, text, p) # 0}
    IN  IF starts = {} THEN [hang |-> FALSE, matches |-> matches]
        ELSE LET index == CHOOSE p \in starts : \A q \in starts : p <= q
                 end == MatchEnd(ds[FirstAlternative(ds, text, index)].pattern, text, index)
                 matchText == Slice(text, index, end)
                 d == matchedDescriptor(ds, matchText)
             IN  IF end = index THEN [hang |-> TRUE, matches |-> matches]
                 ELSE execLoop(ds, text, end,
                               IF d = 0 THEN matches
                               ELSE Append(matches, [start |-> index, end |-> end,
                                                     term |-> ds[d].term,
                                                     text |-> matchText]))

findMatches(text, termMap, useCore, mode) ==
    IF descriptors(termMap, mode) = <<>> THEN [hang |-> FALSE, matches |-> <<>>]
    ELSE execLoop(descriptors(termMap, mode), text, 0, <<>>)

(***************************************************************************)
(* buildTermSegments                                                       *)
(***************************************************************************)
\* The absent term of a plain segment
NoTerm ==
    [id |-> "", chinese_term |-> <<>>, english_term |-> <<>>, related_terms |-> <<>>,
     coreCN |-> <<>>, coreEN |-> <<>>]

RECURSIVE setAliases(_, _, _)
setAliases(strongMap, aliases, term) ==
    IF aliases = <<>> THEN strongMap
    ELSE MapSet(setAliases(strongMap, Front(aliases), term),
                normalizeKey(Last(aliases)), term)

\* lines 460-479: the two maps after the terms so far
RECURSIVE lookupMaps(_, _)
lookupMaps(terms, mode) ==
    IF terms = <<>> THEN [strongMap |-> <<>>, weakMap |-> <<>>]
    ELSE LET maps == lookupMaps(Front(terms), mode)
             term == Last(terms)
             primary == IF mode = "source" THEN term.chinese_term ELSE term.english_term
             withPrimary == IF primary # <<>>
                            THEN MapSet(maps.strongMap, normalizeKey(primary), term)
                            ELSE maps.strongMap
             strongMap == setAliases(withPrimary, term.related_terms, term)
             core == IF mode = "source" THEN term.coreCN ELSE term.coreEN
             coreKey == normalizeKey(core)
         IN  [strongMap |-> strongMap,
              weakMap |-> IF core # <<>> /\ ~MapHas(strongMap, coreKey)
                          THEN MapSet(maps.weakMap, coreKey, term)
                          ELSE maps.weakMap]

Occupied(coverage, m) == \E i \in m.start..(m.end - 1) : i \in coverage

\* The weak pass without its collision check.
acceptMatchesUnchecked(ms, accepted, type) ==
    accepted \o [i \in 1..Len(ms) |->
                    [start |-> ms[i].start, end |-> ms[i].end, term |-> ms[i].term,
                     text |-> ms[i].text, type |-> type]]

\* lines 496-508 and 522-535: the forEach over the sorted matches; the
\* coverage mask is the set of the offsets of the accepted matches.
RECURSIVE acceptMatches(_, _, _)
acceptMatches(ms, accepted, type) ==
    IF ms = <<>> THEN accepted
    ELSE LET before == acceptMatches(Front(ms), accepted, type)
             coverage == UNION {before[i].start..(before[i].end - 1) : i \in 1..Len(before)}
             m == Last(ms)
         IN  IF Occupied(coverage, m) THEN before
             ELSE Append(before, [start |-> m.start, end |-> m.end, term |-> m.term,
                                  text |-> m.text, type |-> type])

\* The loop with one counter for all the terms
RECURSIVE emitLoopOneCounter(_, _, _)
emitLoopOneCounter(text, mode, ms) ==
    IF ms = <<>> THEN [segments |-> <<>>, lastIndex |-> 0]
    ELSE LET prev == emitLoopOneCounter(text, mode, Front(ms))
             m == Last(ms)
             gap == IF m.start > prev.lastIndex
                    THEN << [id |-> <<"seg", mode, Len(prev.segments)>>,
                             text |-> Slice(text, prev.lastIndex, m.start),
                             matchedTerm |-> NoTerm, termOccurrenceIndex |-> -1,
                             matchType |-> "none"] >>
                    ELSE <<>>
         IN  [segments |-> prev.segments \o gap \o
                  << [id |-> <<"seg", mode, Len(prev.segments) + Len(gap)>>,
                      text |-> m.text,
                      matchedTerm |-> m.term, termOccurrenceIndex |-> Len(ms) - 1,
                      matchType |-> m.type] >>,
              lastIndex |-> m.end]

\* lines 547-568: the segments up to the last of the matches ms
RECURSIVE emitLoop(_, _, _)
emitLoop(text, mode, ms) ==
    IF ms = <<>> THEN [segments |-> <<>>, lastIndex |-> 0]
    ELSE LET prev == emitLoop(text, mode, Front(ms))
             m == Last(ms)
             gap == IF m.start > prev.lastIndex
                    THEN << [id |-> <<"seg", mode, Len(prev.segments)>>,
                             text |-> Slice(text, prev.lastIndex, m.start),
                             matchedTerm |-> NoTerm, termOccurrenceIndex |-> -1,
                             matchType |-> "none"] >>
                    ELSE <<>>
             count == Cardinality({i \in 1..(Len(ms) - 1) : ms[i].term.id = m.term.id})
         IN  [segments |-> prev.segments \o gap \o
                  << [id |-> <<"seg", mode, Len(prev.segments) + Len(gap)>>,
                      text |-> m.text,
                      matchedTerm |-> m.term, termOccurrenceIndex |-> count,
                      matchType |-> m.type] >>,
              lastIndex |-> m.end]

\* lines 538-578
constructSegments(text, mode, sortedMatches) ==
    LET emitted == emitLoop(text, mode, sortedMatches)
    IN  IF emitted.lastIndex < Len(text)
        THEN Append(emitted.segments,
                    [id |-> <<"seg", mode, Len(emitted.segments)>>,
                     text |-> Slice(text, emitted.lastIndex, Len(text)),
                     matchedTerm |-> NoTerm, termOccurrenceIndex |-> -1,
                     matchType |-> "none"])
        ELSE emitted.segments

\* lines 485-508: the pass over the strong map
strongPass(text, strongMap, mode) ==
    LET found == findMatches(text, strongMap, FALSE, mode)
    IN  [hang |-> found.hang,
         accepted |-> acceptMatches(SortedBy("span", found.matches), <<>>, "strong")]

\* lines 510-536: the pass over the weak map; line 533 gives its matches the
\* type 'strong' too
weakPass(text, weakMap, mode, accepted) ==
    IF Len(weakMap) > 0
    THEN LET found == findMatches(text, weakMap, TRUE, mode)
         IN  [hang |-> found.hang,
              accepted |-> acceptMatches(SortedBy("span", found.matches), accepted, "strong")]
    ELSE [hang |-> FALSE, accepted |-> accepted]

\* lines 538-578: what is returned for the matches in text order
returned(text, mode, sortedMatches) ==
    [hang |-> FALSE, finalMatches |-> sortedMatches,
     segments |-> constructSegments(text, mode, sortedMatches)]

Hung == [hang |-> TRUE, finalMatches |-> <<>>, segments |-> <<>>]

\* line 539 on, after the weak pass
afterWeakPass(text, mode, weak) ==
    IF weak.hang THEN Hung
    ELSE returned(text, mode, SortedBy("start", weak.accepted))

\* line 510 on, after the strong pass
afterStrongPass(text, weakMap, mode, strong) ==
    IF strong.hang THEN Hung
    ELSE afterWeakPass(text, mode, weakPass(text, weakMap, mode, strong.accepted))

\* line 485 on, with the two maps built
withMaps(text, maps, mode) ==
    afterStrongPass(text, maps.weakMap, mode, strongPass(text, maps.strongMap, mode))

\* The result of buildTermSegments: hang when an exec loop never ends, else
\* the accepted matches in text order and the segments built from them.
buildTermSegments(text, terms, mode) ==
    IF text = <<>> THEN [hang |-> FALSE, finalMatches |-> <<>>, segments |-> <<>>]
    ELSE withMaps(text, lookupMaps(terms, mode), mode)

\* The terms the calls are made with.
TermCatalogue ==
    { [id |-> "t1", chinese_term |-> <<"a">>, english_term |-> <<"a">>,
       related_terms |-> <<>>, coreCN |-> <<>>, coreEN |-> <<>>],
      [id |-> "t2", chinese_term |-> <<"a", "b">>, english_term |-> <<"a", "b">>,
       related_terms |-> << <<"b", " ", " ", "s">> >>,
       coreCN |-> <<"b">>, coreEN |-> <<"b">>],
      [id |-> "t3", chinese_term |-> <<"b", "a", "b">>, english_term |-> <<"b", " ", "a">>,
       related_terms |-> <<>>, coreCN |-> <<"a">>, coreEN |-> <<"a", "s">>],
      [id |-> "t4", chinese_term |-> <<" ">>, english_term |-> <<"A">>,
       related_terms |-> <<>>, coreCN |-> <<>>, coreEN |-> <<"a", "b">>] }

IsInjective(l) == \A i, j \in 1..Len(l) : l[i] = l[j] => i = j
TermLists == {l \in SeqsUpTo(TermCatalogue, MaxTerms) : IsInjective(l)}

(***************************************************************************)
(* translateText.  A completion call is one getCompletion call as its      *)
(* caller sees it: it returns a text or throws.                            *)
(***************************************************************************)
TrAlphabet == {"a", "Z", "."}

\* A longer text: two sentences, the first one led by a delimiter
DelimiterLedTexts == { <<".", "a", ".", "a">> }

\* The Markdown code fence (three grave accents) that opens an answer, with
\* its line end, and the one that closes it
FenceOpen == "<fence>\n"
FenceClose == "\n<fence>"

\* The answers of the completion service to Draft, Review and Polish: a
\* fenced text, and a blank one that is empty once cleaned
CompletionTexts == {<<FenceOpen, "y", "z", " ">>, <<" ">>}

\* The messages of the errors getCompletion throws: the quota error of the
\* wrapper, the missing key, and a failed fetch
CompletionErrors == {QUOTA_EXCEEDED, MissingApiKey, <<"Failed", "to", "fetch">>}

Undefined == "undefined"

\* The answers to Align: a JSON array of alignments, a JSON object that holds
\* such an array under a key, or text that is no JSON
AlignAnswers ==
    { [json |-> "array",
       value |-> << [termId |-> "t1",
                     sourceSpans |-> << [start |-> 0, end |-> 1] >>,
                     targetSpans |-> << [start |-> 0, end |-> 1] >>] >>],
      [json |-> "array",
       value |-> << [termId |-> "t1",
                     sourceSpans |-> << [start |-> 0, end |-> 1] >>,
                     targetSpans |-> << [start |-> 1, end |-> 2] >>],
                    [termId |-> "t2",
                     sourceSpans |-> << [start |-> 0, end |-> 1] >>,
                     targetSpans |-> << [start |-> 0, end |-> 2] >>],
                    [termId |-> "t1",
                     sourceSpans |-> << [start |-> 1, end |-> 2] >>,
                     targetSpans |-> << [start |-> 0, end |-> 1] >>] >>],
      [json |-> "object",
       value |-> << [termId |-> "t1",
                     sourceSpans |-> << [start |-> 0, end |-> 1] >>,
                     targetSpans |-> << [start |-> 0, end |-> 1] >>] >>],
      [json |-> "invalid", value |-> <<>>] }

\* What the log holds for an Align call that threw, whatever the error
Thrown == [json |-> "thrown", value |-> <<>>]

\* Any JSON taken for the list it holds
parseAlignmentsAnyJson(answer) ==
    IF answer.json \in {"array", "object"} THEN answer.value ELSE <<>>

\* lines 264-269: JSON.parse throws on text that is no JSON and the catch
\* returns []; line 266 returns [] for JSON that is not an array
parseAlignments(answer) ==
    IF answer.json = "array" THEN answer.value ELSE <<>>

\* lines 101, 193 and 264: the fences removed, then trim()
cleanup(result) ==
    LET opened == IF result # <<>> /\ Head(result) = FenceOpen
                  THEN Tail(result) ELSE result
        closed == IF opened # <<>> /\ Last(opened) = FenceClose
                  THEN Front(opened) ELSE opened
    IN  TrimRight(TrimLeft(closed))

\* The number of chunks rounded down instead of up
calculateChunkSizeFloor(totalTokens, targetPerChunk) ==
    IF totalTokens <= targetPerChunk THEN totalTokens
    ELSE LET numChunks == totalTokens \div targetPerChunk
             even == (totalTokens + numChunks - 1) \div numChunks
         IN  IF even > 1 THEN even ELSE 1

\* part_007 lines 42-48
calculateChunkSize(totalTokens, targetPerChunk) ==
    IF totalTokens <= targetPerChunk THEN totalTokens
    ELSE LET numChunks == (totalTokens + targetPerChunk - 1) \div targetPerChunk
             even == (totalTokens + numChunks - 1) \div numChunks
         IN  IF even > 1 THEN even ELSE 1

\* lines 617-620: the strategy
SingleChunk == getTokenCount(trText) <= trMaxTokens

\* line 633 with the test left out
ModeIsFastNever(mode) == FALSE

\* lines 633 and 684: mode === 'fast'
ModeIsFast(mode) == mode = "fast"

\* The text of the chunk in hand: sourceText, or chunks[i]
ChunkSource == IF SingleChunk THEN trText ELSE trChunks[trI + 1]

\* The part number stuck at the first part
ProgressPartFirst(i) == IF SingleChunk THEN 0 ELSE 1

\* line 673: the part number in the status, 0 for the single chunk
ProgressPart(i) == IF SingleChunk THEN 0 ELSE i + 1

Status(i, label) == [part |-> ProgressPart(i), label |-> label]

FirstLabel == IF ModeIsFast(trMode) THEN "Translating..." ELSE "Drafting..."

\* A call that is not given the review notes
CallWithoutNotes(step, i, source, translated, notes) ==
    [step |-> step, chunk |-> i, source |-> source, translated |-> translated,
     notes |-> <<>>]

\* What a completion call is made with: its step, its chunk and the texts
\* in its prompt (lines 625, 639, 642, 654 and 686-723)
Call(step, i, source, translated, notes) ==
    [step |-> step, chunk |-> i, source |-> source, translated |-> translated,
     notes |-> notes]

\* The parts joined with a single line end
RECURSIVE JoinOneLineEnd(_)
JoinOneLineEnd(parts) ==
    IF parts = <<>> THEN <<>>
    ELSE IF Len(parts) = 1 THEN parts[1]
    ELSE JoinOneLineEnd(Front(parts)) \o <<"\n">> \o Last(parts)

\* results.join('\n\n')
RECURSIVE Join(_)
Join(parts) ==
    IF parts = <<>> THEN <<>>
    ELSE IF Len(parts) = 1 THEN parts[1]
    ELSE Join(Front(parts)) \o <<"\n", "\n">> \o Last(parts)

\* line 707: the prefix of the reflection of chunk i
PartTag(i) == <<"[Part ", ToString(i + 1), "] ">>

ShiftSpans(spans, offset) ==
    [k \in 1..Len(spans) |->
        [start |-> spans[k].start + offset, end |-> spans[k].end + offset]]

\* The merge without the lookup of line 729: every alignment of a chunk
\* becomes an entry of its own.
mergeAlignmentAlwaysNew(all, al, sourceOffset, targetOffset) ==
    Append(all, [termId |-> al.termId,
                 sourceSpans |-> ShiftSpans(al.sourceSpans, sourceOffset),
                 targetSpans |-> ShiftSpans(al.targetSpans, targetOffset)])

\* lines 728-746: one alignment of the chunk merged into allAlignments
mergeAlignment(all, al, sourceOffset, targetOffset) ==
    LET known == \E k \in 1..Len(all) : all[k].termId = al.termId
        withEntry == IF known THEN all
                     ELSE Append(all, [termId |-> al.termId, sourceSpans |-> <<>>,
                                       targetSpans |-> <<>>])
        at == CHOOSE k \in 1..Len(withEntry) :
                  /\ withEntry[k].termId = al.termId
                  /\ \A j \in 1..(k - 1) : withEntry[j].termId # al.termId
    IN  [withEntry EXCEPT
            ![at].sourceSpans = @ \o ShiftSpans(al.sourceSpans, sourceOffset),
            ![at].targetSpans = @ \o ShiftSpans(al.targetSpans, targetOffset)]

RECURSIVE mergeAlignments(_, _, _, _)
mergeAlignments(all, chunkAlignments, sourceOffset, targetOffset) ==
    IF chunkAlignments = <<>> THEN all
    ELSE mergeAlignment(mergeAlignments(all, Front(chunkAlignments),
                                        sourceOffset, targetOffset),
                        Last(chunkAlignments), sourceOffset, targetOffset)

\* lines 749-760 and 671: after the steps of chunk i, the next chunk is
\* started or the joined result is returned
EndOfChunk(chunkResult, chunkAlignments, results1, reflections1, progress1) ==
    LET all1 == mergeAlignments(trAllAlignments, chunkAlignments,
                                trSourceOffset, trTargetOffset)
        i1 == trI + 1
    IN  /\ trResults' = results1
        /\ trReflections' = reflections1
        /\ trAllAlignments' = all1
        /\ trSourceOffset' = trSourceOffset + Len(trChunks[trI + 1])
        /\ trTargetOffset' = trTargetOffset + Len(chunkResult) + 2
        /\ trI' = i1
        /\ UNCHANGED trChunks
        /\ IF i1 < Len(trChunks)
           THEN /\ trProgress' = Append(progress1, Status(i1, FirstLabel))
                /\ trCalls' = Append(trCalls,
                                     Call("Draft", i1, trChunks[i1 + 1], <<>>, <<>>))
                /\ trStep' = "Draft"
                /\ trPc' = "await"
                /\ UNCHANGED trResult
           ELSE /\ trResult' = [finalText |-> Join(results1),
                                reflectionNotes |-> Join(reflections1),
                                alignments |-> IF trMode = "professional"
                                               THEN all1 ELSE Undefined]
                /\ trPc' = "returned"
                /\ trProgress' = progress1
                /\ UNCHANGED <<trCalls, trStep>>

\* lines 656 and 725-752: with the alignments of the chunk in hand
AfterAlign(alignments, improved, results1, progress1) ==
    IF SingleChunk
    THEN /\ trResult' = [finalText |-> improved, reflectionNotes |-> trReflection,
                         alignments |-> alignments]
         /\ trPc' = "returned"
         /\ trProgress' = progress1
         /\ UNCHANGED <<trLoop, trCalls, trStep>>
    ELSE EndOfChunk(improved, alignments, results1, trReflections, progress1)

\* lines 617-625 and 660-697: up to the first completion call
TranslateCall ==
    /\ trPc = "start"
    /\ \E chunks0 \in {IF SingleChunk THEN <<>>
                       ELSE splitTextIntoChunks(trText,
                                calculateChunkSize(getTokenCount(trText), trMaxTokens))} :
          /\ trChunks' = chunks0
          /\ IF SingleChunk \/ chunks0 # <<>>
             THEN /\ trProgress' = <<Status(0, FirstLabel)>>
                  /\ trCalls' = << Call("Draft", 0,
                                        IF SingleChunk THEN trText ELSE chunks0[1],
                                        <<>>, <<>>) >>
                  /\ trStep' = "Draft"
                  /\ trPc' = "await"
                  /\ UNCHANGED trResult
             ELSE /\ trResult' = [finalText |-> <<>>, reflectionNotes |-> <<>>,
                                  alignments |-> IF trMode = "professional"
                                                 THEN <<>> ELSE Undefined]
                  /\ trPc' = "returned"
                  /\ UNCHANGED <<trProgress, trCalls, trStep>>
    /\ UNCHANGED <<trInputs, trLocals, trI, trResults, trReflections, trAllAlignments,
                   trSourceOffset, trTargetOffset, trError, trAlignLog,
                   notTrVars>>

\* The Draft call returns: lines 625-638 and 686-706
DraftReturns ==
    /\ trPc = "await"
    /\ trStep = "Draft"
    /\ \E answer \in CompletionTexts :
          LET draft == cleanup(answer)
          IN  IF ModeIsFast(trMode)
              THEN /\ UNCHANGED trLocals
                   /\ IF SingleChunk
                      THEN /\ trResult' = [finalText |-> draft]
                           /\ trPc' = "returned"
                           /\ UNCHANGED <<trLoop, trCalls, trStep, trProgress>>
                      ELSE EndOfChunk(draft, <<>>, Append(trResults, draft),
                                      trReflections, trProgress)
              ELSE /\ trDraft' = draft
                   /\ trProgress' = Append(trProgress, Status(trI, "Reviewing..."))
                   /\ trCalls' = Append(trCalls,
                                        Call("Review", trI, ChunkSource, draft, <<>>))
                   /\ trStep' = "Review"
                   /\ UNCHANGED <<trPc, trReflection, trImproved, trLoop, trResult>>
    /\ UNCHANGED <<trInputs, trError, trAlignLog, notTrVars>>

\* The Review call returns: lines 639-642 and 706-710
ReviewReturns ==
    /\ trPc = "await"
    /\ trStep = "Review"
    /\ \E answer \in CompletionTexts :
          /\ trReflection' = answer
          /\ trReflections' = IF SingleChunk THEN trReflections
                              ELSE Append(trReflections, PartTag(trI) \o answer)
          /\ trProgress' = Append(trProgress, Status(trI, "Polishing..."))
          /\ trCalls' = Append(trCalls,
                               Call("Polish", trI, ChunkSource, trDraft, answer))
    /\ trStep' = "Polish"
    /\ UNCHANGED <<trInputs, trPc, trDraft, trImproved, trChunks, trI, trResults,
                   trAllAlignments, trSourceOffset, trTargetOffset, trResult,
                   trError, trAlignLog, notTrVars>>

\* The Polish call returns: lines 642-654 and 710-725, and alignTermsWithLLM
\* up to its completion call (lines 205-262)
PolishReturns ==
    /\ trPc = "await"
    /\ trStep = "Polish"
    /\ \E answer \in CompletionTexts :
          LET improved == cleanup(answer)
              results1 == IF SingleChunk THEN trResults
                          ELSE Append(trResults, improved)
              progress1 == Append(trProgress,
                                  Status(trI, IF SingleChunk THEN "Aligning Terms..."
                                              ELSE "Aligning..."))
          IN  /\ trImproved' = improved
              /\ IF trTerms = <<>> \/ ChunkSource = <<>> \/ improved = <<>>
                 THEN AfterAlign(<<>>, improved, results1, progress1)
                 ELSE /\ trCalls' = Append(trCalls,
                                           Call("Align", trI, ChunkSource, improved, <<>>))
                      /\ trStep' = "Align"
                      /\ trProgress' = progress1
                      /\ trResults' = results1
                      /\ UNCHANGED <<trPc, trChunks, trI, trReflections, trAllAlignments,
                                     trSourceOffset, trTargetOffset, trResult>>
    /\ UNCHANGED <<trInputs, trDraft, trReflection, trError, trAlignLog, notTrVars>>

\* The Align call returns: lines 262-266, then 656 or 728-760
AlignReturns ==
    /\ trPc = "await"
    /\ trStep = "Align"
    /\ \E answer \in AlignAnswers :
          /\ AfterAlign(parseAlignments(answer),
                        trImproved, trResults, trProgress)
          /\ trAlignLog' = Append(trAlignLog, [chunk |-> trI, answer |-> answer])
    /\ UNCHANGED <<trInputs, trLocals, trError, notTrVars>>

\* The Align call throws: lines 267-270, then 656 or 728-760
AlignThrows ==
    /\ trPc = "await"
    /\ trStep = "Align"
    /\ AfterAlign(<<>>, trImproved, trResults, trProgress)
    /\ trAlignLog' = Append(trAlignLog, [chunk |-> trI, answer |-> Thrown])
    /\ UNCHANGED <<trInputs, trLocals, trError, notTrVars>>

\* The Draft, Review or Polish call throws: translateText has no handler
CompletionThrows ==
    /\ trPc = "await"
    /\ trStep \in {"Draft", "Review", "Polish"}
    /\ \E error \in CompletionErrors : trError' = error
    /\ trPc' = "failed"
    /\ UNCHANGED <<trInputs, trStep, trCalls, trProgress, trLocals, trLoop, trResult,
                   trAlignLog, notTrVars>>

(***************************************************************************)
(* TranslationAssistant: handleTranslate and the continuations of its      *)
(* await.  A translateText call in flight is seen from the component: it   *)
(* reports progress, then resolves with a result or rejects with an error. *)
(***************************************************************************)
InputAlphabet == SegAlphabet \cup {"Z"}

\* The dictionaries of the component: no term, or one term of the catalogue
Dictionaries == {<<>>} \cup {<<term>> : term \in TermCatalogue}

\* null, and a value that is not null
None == <<>>
Some(v) == <<v>>

\* line 231: /[一-龥]/.test(inputText)
isSourceChinese == \E i \in 1..Len(inputText) : IsCjk(inputText[i])

SegmentMode == IF isSourceChinese THEN "source" ELSE "translation"

\* lines 326-334: glossaryMap, from the segments that carry a term
RECURSIVE glossaryMapOf(_)
glossaryMapOf(segs) ==
    IF segs = <<>> THEN <<>>
    ELSE LET map == glossaryMapOf(Front(segs))
             seg == Last(segs)
             target == IF isSourceChinese THEN seg.matchedTerm.english_term
                       ELSE seg.matchedTerm.chinese_term
         IN  IF seg.matchedTerm # NoTerm /\ target # <<>>
             THEN MapSet(map, seg.text, [target |-> target, id |-> seg.matchedTerm.id])
             ELSE map

\* lines 335-339
glossaryOf(glossaryMap) ==
    [k \in 1..Len(glossaryMap) |->
        [source |-> glossaryMap[k].key, target |-> glossaryMap[k].term.target,
         id |-> glossaryMap[k].term.id]]

\* line 342: the terms of the glossary entries, looked up by id
RECURSIVE relevantTermsOf(_)
relevantTermsOf(glossaryMap) ==
    IF glossaryMap = <<>> THEN <<>>
    ELSE LET id == Last(glossaryMap).term.id
         IN  IF \E n \in 1..Len(allTerms) : allTerms[n].id = id
             THEN Append(relevantTermsOf(Front(glossaryMap)),
                         allTerms[CHOOSE n \in 1..Len(allTerms) :
                                     /\ allTerms[n].id = id
                                     /\ \A j \in 1..(n - 1) : allTerms[j].id # id])
             ELSE relevantTermsOf(Front(glossaryMap))

\* The statuses translateText reports (lines 622-653 of textProcessing.ts)
Statuses == {<<"Drafting...">>, <<"Reviewing...">>}

\* What translateText resolves with for request id
TranslationResults(id) ==
    { [finalText |-> <<"T", ToString(id)>>],
      [finalText |-> <<"T", ToString(id)>>, reflectionNotes |-> <<"N", ToString(id)>>,
       alignments |-> Some(<<>>)],
      [finalText |-> <<"T", ToString(id)>>, reflectionNotes |-> <<>>,
       alignments |-> None] }

\* The messages of the errors translateText rejects with
RejectionMessages == {QUOTA_EXCEEDED, <<"Failed", "to", "fetch">>, <<>>}

\* t(key)
Translated(key) == <<key>>

\* lines 355, 364 and 373 with the comparison left out
IsCurrentAlways(requestId) == TRUE

\* lines 355, 364 and 373: requestId === requestRef.current
IsCurrent(requestId) == requestId = requestRef

Pending(k) == k \in 1..Len(requests) /\ requests[k].status = "pending"

\* lines 304-308: the invocation returns at once
HandleTranslateIgnored ==
    /\ ~frozen
    /\ (TrimRight(TrimLeft(inputText)) = <<>> \/ ~auth)
    /\ UNCHANGED vars

\* lines 311-353: up to the await of translateText
HandleTranslate ==
    /\ ~frozen
    /\ TrimRight(TrimLeft(inputText)) # <<>>
    /\ auth
    /\ requestRef < MaxRequests
    /\ \E built \in {buildTermSegments(inputText, allTerms, SegmentMode)} :
          /\ ~built.hang
          /\ \E glossaryMap \in {glossaryMapOf(built.segments)} :
                requests' = Append(requests,
                    [requestId |-> requestRef + 1, status |-> "pending",
                     glossary |-> glossaryOf(glossaryMap),
                     relevantTerms |-> relevantTermsOf(glossaryMap)])
    /\ requestRef' = requestRef + 1
    /\ isLoading' = TRUE
    /\ uiError' = None
    /\ reflectionNotes' = <<>>
    /\ uiAlignments' = None
    /\ UNCHANGED <<inputText, allTerms, auth, translatedText, stepStatus, frozen,
                   notUiVars>>

\* lines 311-328: buildTermSegments never returns
HandleTranslateHangs ==
    /\ ~frozen
    /\ TrimRight(TrimLeft(inputText)) # <<>>
    /\ auth
    /\ requestRef < MaxRequests
    /\ buildTermSegments(inputText, allTerms, SegmentMode).hang
    /\ requestRef' = requestRef + 1
    /\ isLoading' = TRUE
    /\ uiError' = None
    /\ reflectionNotes' = <<>>
    /\ uiAlignments' = None
    /\ frozen' = TRUE
    /\ UNCHANGED <<inputText, allTerms, auth, requests, translatedText, stepStatus,
                   notUiVars>>

\* line 352: onProgress of a request in flight
ProgressReported ==
    /\ ~frozen
    /\ \E k \in 1..Len(requests), s \in Statuses :
          /\ Pending(k)
          /\ stepStatus' = s
    /\ UNCHANGED <<inputText, allTerms, auth, requestRef, requests, translatedText,
                   reflectionNotes, uiAlignments, uiError, isLoading, frozen, notUiVars>>

\* The finally block without the test of the sequence number
FinallyUnguarded(requestId) == isLoading' = FALSE /\ stepStatus' = <<>>

\* lines 373-376: the finally block
Finally(requestId) ==
    IF IsCurrent(requestId)
    THEN isLoading' = FALSE /\ stepStatus' = <<>>
    ELSE UNCHANGED <<isLoading, stepStatus>>

\* lines 355-361 and 372-377: translateText resolved
RequestResolves ==
    /\ ~frozen
    /\ \E k \in 1..Len(requests) :
          /\ Pending(k)
          /\ requests' = [requests EXCEPT ![k].status = "resolved"]
          /\ \E result \in TranslationResults(requests[k].requestId) :
                IF IsCurrent(requests[k].requestId)
                THEN /\ translatedText' = result.finalText
                     /\ reflectionNotes' = IF "reflectionNotes" \in DOMAIN result
                                           THEN result.reflectionNotes ELSE <<>>
                     /\ uiAlignments' = IF "alignments" \in DOMAIN result
                                         /\ result.alignments # None
                                      THEN result.alignments ELSE uiAlignments
                ELSE UNCHANGED <<translatedText, reflectionNotes, uiAlignments>>
          /\ Finally(requests[k].requestId)
    /\ UNCHANGED <<inputText, allTerms, auth, requestRef, uiError, frozen, notUiVars>>

\* lines 363-377: translateText rejected
RequestRejects ==
    /\ ~frozen
    /\ \E k \in 1..Len(requests) :
          /\ Pending(k)
          /\ requests' = [requests EXCEPT ![k].status = "rejected"]
          /\ \E message \in RejectionMessages :
                IF IsCurrent(requests[k].requestId)
                THEN uiError' = Some(IF message = QUOTA_EXCEEDED
                                   THEN Translated("ERR_QUOTA_EXCEEDED")
                                   ELSE IF message # <<>> THEN message
                                   ELSE Translated("ERR_TRANS_FAILED"))
                ELSE UNCHANGED uiError
          /\ Finally(requests[k].requestId)
    /\ UNCHANGED <<inputText, allTerms, auth, requestRef, translatedText,
                   reflectionNotes, uiAlignments, frozen, notUiVars>>

(***************************************************************************)
(* Specifications.  Each one runs one component from its inputs; the       *)
(* variables of the others stay idle.                                      *)
(***************************************************************************)
TrIdle ==
    /\ trText = <<>> /\ trMode = "fast" /\ trMaxTokens = 0 /\ trTerms = <<>>
    /\ trPc = "idle" /\ trStep = ""
    /\ trCalls = <<>> /\ trProgress = <<>>
    /\ trDraft = <<>> /\ trReflection = <<>> /\ trImproved = <<>>
    /\ trChunks = <<>> /\ trI = 0 /\ trResults = <<>> /\ trReflections = <<>>
    /\ trAllAlignments = <<>> /\ trSourceOffset = 0 /\ trTargetOffset = 0
    /\ trResult = <<>> /\ trError = <<>> /\ trAlignLog = <<>>

UiIdle ==
    /\ inputText = <<>> /\ allTerms = <<>> /\ auth = FALSE
    /\ requestRef = 0 /\ requests = <<>>
    /\ translatedText = <<>> /\ reflectionNotes = <<>>
    /\ uiAlignments = <<>> /\ uiError = <<>>
    /\ isLoading = FALSE /\ stepStatus = <<>> /\ frozen = FALSE

SizeIdle ==
    /\ sizeTotal = 0 /\ sizeTarget = 0 /\ sizeResult = 0 /\ sizePc = "idle"

TokIdle ==
    /\ tokText1 = <<>> /\ tokText2 = <<>>
    /\ tokCount1 = 0 /\ tokCount12 = 0 /\ tokPc = "idle"

ChunkIdle ==
    /\ chunkText = <<>> /\ chunkBudget = 0 /\ chunks = <<>> /\ chunkPc = "idle"

CompIdle ==
    /\ compConfig = [provider |-> "other", apiKey |-> ""]
    /\ envApiKey = ""
    /\ compPc = "idle"
    /\ attempt = 0
    /\ lastError = NoError
    /\ providerCalls = 0
    /\ outcomes = <<>>
    /\ waits = <<>>
    /\ compResult = ""
    /\ compError = <<>>

SegIdle ==
    /\ segText = <<>> /\ segTerms = <<>> /\ segMode = "source"
    /\ finalMatches = <<>> /\ segments = <<>> /\ segPc = "idle"

\* The chunker: one call on any text and budget.
ChunkInit ==
    /\ chunkText \in SeqsUpTo(ChunkAlphabet, MaxChunkTextLen)
    /\ chunkBudget \in 0..MaxBudget
    /\ chunks = <<>>
    /\ chunkPc = "call"
    /\ TokIdle /\ CompIdle /\ SegIdle /\ TrIdle /\ UiIdle /\ SizeIdle

SplitCall ==
    /\ chunkPc = "call"
    /\ chunks' = splitTextIntoChunks(chunkText, chunkBudget)
    /\ chunkPc' = "done"
    /\ UNCHANGED <<chunkText, chunkBudget, notChunkVars>>

ChunkNext == SplitCall

SpecChunk == ChunkInit /\ [][ChunkNext]_vars

\* The estimator: the estimate of a text and of the text with a non-empty
\* text appended.
TokInit ==
    /\ tokText1 \in SeqsUpTo(ChunkAlphabet, MaxTokText1Len)
    /\ tokText2 \in SeqsUpTo(ChunkAlphabet, MaxTokText2Len) \ {<<>>}
    /\ tokCount1 = 0
    /\ tokCount12 = 0
    /\ tokPc = "call"
    /\ ChunkIdle /\ CompIdle /\ SegIdle /\ TrIdle /\ UiIdle /\ SizeIdle

Estimate ==
    /\ tokPc = "call"
    /\ tokCount1' = getTokenCount(tokText1)
    /\ tokCount12' = getTokenCount(tokText1 \o tokText2)
    /\ tokPc' = "done"
    /\ UNCHANGED <<tokText1, tokText2, notTokVars>>

TokNext == Estimate

SpecTok == TokInit /\ [][TokNext]_vars

\* The completion wrapper: one call with any configuration, against a
\* provider that answers or fails each request in any way.
CompInit ==
    /\ compConfig \in [provider : Providers, apiKey : {"", "key"}]
    /\ envApiKey \in {"", "envkey"}
    /\ compPc = "entry"
    /\ attempt = 0
    /\ lastError = NoError
    /\ providerCalls = 0
    /\ outcomes = <<>>
    /\ waits = <<>>
    /\ compResult = ""
    /\ compError = <<>>
    /\ ChunkIdle /\ TokIdle /\ SegIdle /\ TrIdle /\ UiIdle /\ SizeIdle

CompNext ==
    \/ Entry
    \/ LoopTop
    \/ ProviderReturns
    \/ ProviderThrows
    \/ ProviderAnswersNoContent
    \/ ThrowUnsupported

SpecComp == CompInit /\ [][CompNext]_vars

\* The segmenter: one call on any text, term list and mode.
SegInit ==
    /\ segText \in SeqsUpTo(SegAlphabet, MaxSegTextLen)
    /\ segTerms \in TermLists
    /\ segMode \in {"source", "translation"}
    /\ finalMatches = <<>>
    /\ segments = <<>>
    /\ segPc = "call"
    /\ ChunkIdle /\ TokIdle /\ CompIdle /\ TrIdle /\ UiIdle /\ SizeIdle

\* The call returns.
BuildReturns ==
    /\ segPc = "call"
    /\ \E r \in {buildTermSegments(segText, segTerms, segMode)} :
          /\ ~r.hang
          /\ finalMatches' = r.finalMatches
          /\ segments' = r.segments
    /\ segPc' = "done"
    /\ UNCHANGED <<segText, segTerms, segMode, notSegVars>>

\* The call never returns: an exec loop of findMatches does not advance.
BuildHangs ==
    /\ segPc = "call"
    /\ buildTermSegments(segText, segTerms, segMode).hang
    /\ segPc' = "hang"
    /\ UNCHANGED <<segText, segTerms, segMode, finalMatches, segments, notSegVars>>

SegNext == BuildReturns \/ BuildHangs

SpecSeg == SegInit /\ [][SegNext]_vars

TrInit ==
    /\ trText \in SeqsUpTo(TrAlphabet, MaxTrTextLen) \cup DelimiterLedTexts
    /\ trMode \in {"fast", "professional"}
    /\ trMaxTokens \in 1..MaxTrBudget
    /\ trTerms \in {<<>>, <<"t1">>}
    /\ trPc = "start"
    /\ trStep = ""
    /\ trCalls = <<>> /\ trProgress = <<>>
    /\ trDraft = <<>> /\ trReflection = <<>> /\ trImproved = <<>>
    /\ trChunks = <<>> /\ trI = 0 /\ trResults = <<>> /\ trReflections = <<>>
    /\ trAllAlignments = <<>> /\ trSourceOffset = 0 /\ trTargetOffset = 0
    /\ trResult = <<>> /\ trError = <<>> /\ trAlignLog = <<>>
    /\ ChunkIdle /\ TokIdle /\ CompIdle /\ SegIdle /\ UiIdle /\ SizeIdle

TrNext ==
    \/ TranslateCall
    \/ DraftReturns
    \/ ReviewReturns
    \/ PolishReturns
    \/ AlignReturns
    \/ AlignThrows
    \/ CompletionThrows

SpecTranslate == TrInit /\ [][TrNext]_vars

UiInit ==
    /\ inputText \in SeqsUpTo(InputAlphabet, MaxInputTextLen)
    /\ allTerms \in Dictionaries
    /\ auth \in BOOLEAN
    /\ requestRef = 0 /\ requests = <<>>
    /\ translatedText = <<>> /\ reflectionNotes = <<>>
    /\ uiAlignments = None /\ uiError = None
    /\ isLoading = FALSE /\ stepStatus = <<>> /\ frozen = FALSE
    /\ ChunkIdle /\ TokIdle /\ CompIdle /\ SegIdle /\ TrIdle /\ SizeIdle

UiNext ==
    \/ HandleTranslateIgnored
    \/ HandleTranslate
    \/ HandleTranslateHangs
    \/ ProgressReported
    \/ RequestResolves
    \/ RequestRejects

SpecHandle == UiInit /\ [][UiNext]_vars

\* A request in flight settles and its continuation (lines 355-377) runs
SettleRequest == RequestResolves \/ RequestRejects

\* The event loop runs the continuation of every translateText that settles
SpecHandleFair == UiInit /\ [][UiNext]_vars /\ WF_vars(SettleRequest)

(***************************************************************************)
(* Claims about the chunker and the estimator.                             *)
(***************************************************************************)
\* C4: for every text and every positive maxTokensPerChunk the chunks of
\* splitTextIntoChunks, concatenated in order with no separator, are the
\* source text: no character is dropped, added or reordered.
ChunksReconstructText ==
    (chunkPc = "done" /\ chunkBudget > 0) => Concat(chunks) = chunkText

\* C5: every chunk returned by splitTextIntoChunks has a token estimate
\* within the budget or is a single character; no chunk of two or more
\* characters exceeds the budget.
ChunkWithinBudget ==
    chunkPc = "done" =>
        \A i \in 1..Len(chunks) :
            getTokenCount(chunks[i]) <= chunkBudget \/ Len(chunks[i]) = 1

\* A call that was split down to an over-budget single character next to a
\* chunk of several characters that fits.
ChunkWithinBudgetWitness ==
    /\ chunkPc = "done"
    /\ \E i \in 1..Len(chunks) :
          Len(chunks[i]) = 1 /\ getTokenCount(chunks[i]) > chunkBudget
    /\ \E i \in 1..Len(chunks) :
          Len(chunks[i]) >= 2 /\ getTokenCount(chunks[i]) <= chunkBudget

\* C6: every chunk returned by splitTextIntoChunks is a non-empty string, for
\* every text (the empty text included) and every budget.
ChunksNonEmpty ==
    chunkPc = "done" => \A i \in 1..Len(chunks) : chunks[i] # <<>>

\* C7: getTokenCount(text1 + text2) >= getTokenCount(text1) for every text1
\* and every non-empty text2.
TokenMonotone ==
    tokPc = "done" => tokCount12 >= tokCount1

\* An appended text that leaves a positive estimate where it was: it only
\* lengthens the last word or adds whitespace.
TokenMonotoneWitness ==
    /\ tokPc = "done"
    /\ tokText2 # <<>>
    /\ tokCount1 > 0
    /\ tokCount12 = tokCount1

(***************************************************************************)
(* Claims about the completion wrapper.                                    *)
(***************************************************************************)
\* A failure that is quota-related in the words of the contract: a 429
\* status or code, or '429', 'quota' or 'RESOURCE_EXHAUSTED' in its message.
QuotaRelated(o) ==
    /\ ~o.ok
    /\ \/ o.error.status = 429
       \/ o.error.code = 429
       \/ \E w \in {"429", "quota", "RESOURCE_EXHAUSTED"} : Includes(ErrorMsg(o.error), w)

AllQuota(os) == \A i \in 1..Len(os) : QuotaRelated(os[i])

\* C8: with a credential present, k quota failures (0 <= k <= 3) followed by
\* an answer make the call return that answer with no error; 4 quota
\* failures make it fail with QUOTA_EXCEEDED; at most 4 requests are sent.
RetryContract ==
    /\ providerCalls <= 4
    /\ Len(outcomes) = providerCalls
    /\ (outcomes # <<>> /\ Last(outcomes).ok /\ AllQuota(Front(outcomes)))
          => (compPc = "returned" /\ compError = <<>>)
    /\ compPc = "returned"
          => /\ Last(outcomes).ok /\ AllQuota(Front(outcomes)) /\ compError = <<>>
             /\ compResult = (IF Last(outcomes).text = "undefined" THEN ""
                              ELSE Last(outcomes).text)
    /\ (outcomes # <<>> /\ Len(outcomes) < 4 /\ AllQuota(outcomes))
          => (compPc \in {"loop", "invoke"} /\ compError = <<>>)
    /\ (Len(outcomes) = 4 /\ AllQuota(outcomes))
          => (compPc = "failed" /\ compError = QUOTA_EXCEEDED)

\* The call that returns on its fourth request after three quota failures.
RetryContractWitness ==
    /\ compPc = "returned"
    /\ Len(outcomes) = 4
    /\ AllQuota(Front(outcomes))
    /\ Last(outcomes).ok

\* C9: a failure that is not quota-related ends the call on the attempt where
\* it occurs, also after quota failures of earlier attempts: no further
\* request is sent and the error surfaced is not QUOTA_EXCEEDED.  A missing
\* credential fails the call before any request is sent.
NonQuotaFailureEndsCall ==
    /\ \A i \in 1..Len(outcomes) :
          (~outcomes[i].ok /\ ~QuotaRelated(outcomes[i]))
             => /\ i = Len(outcomes)
                /\ compPc = "failed"
                /\ compError # QUOTA_EXCEEDED
                /\ compError = ErrorMsg(outcomes[i].error)
    /\ (EffectiveApiKey = "" /\ compPc # "entry")
          => (compPc = "failed" /\ providerCalls = 0 /\ compError = MissingApiKey)

\* A request that fails with an error of another kind after a quota failure
\* of the attempt before it.
NonQuotaFailureWitness ==
    /\ Len(outcomes) = 2
    /\ QuotaRelated(outcomes[1])
    /\ ~outcomes[2].ok /\ ~QuotaRelated(outcomes[2])
    /\ compPc = "failed"

(***************************************************************************)
(* Claims about the segmenter.                                             *)
(***************************************************************************)
SegTexts == [i \in 1..Len(segments) |-> segments[i].text]

\* The offset of segment i in the text: the segments before it laid end to end
SegStart(i) == Len(Concat(SubSeq(SegTexts, 1, i - 1)))

\* The indices of the matched segments, in output order
RECURSIVE MatchedIndices(_)
MatchedIndices(n) ==
    IF n = 0 THEN <<>>
    ELSE IF segments[n].matchType # "none" THEN Append(MatchedIndices(n - 1), n)
    ELSE MatchedIndices(n - 1)

SpansDisjoint(ms) ==
    \A i, j \in 1..Len(ms) :
        i # j => (ms[i].end <= ms[j].start \/ ms[j].end <= ms[i].start)

\* C1: for every text, term list and mode, the segments of a call that
\* returns concatenate in output order to the input text, the accepted match
\* spans are pairwise disjoint, and the matched segments are those spans, so
\* no character belongs to two matched segments.
SegmentsPartitionText ==
    segPc = "done" =>
        /\ Concat(SegTexts) = segText
        /\ SpansDisjoint(finalMatches)
        /\ \A i \in 1..Len(finalMatches) :
              0 <= finalMatches[i].start /\ finalMatches[i].start < finalMatches[i].end
              /\ finalMatches[i].end <= Len(segText)
        /\ Len(MatchedIndices(Len(segments))) = Len(finalMatches)
        /\ \A k \in 1..Len(finalMatches) :
              LET i == MatchedIndices(Len(segments))[k]
              IN  /\ SegStart(i) = finalMatches[k].start
                  /\ Len(segments[i].text) = finalMatches[k].end - finalMatches[k].start
                  /\ segments[i].matchedTerm = finalMatches[k].term

\* A call that returns two matched segments after a weak candidate that
\* overlaps an accepted strong span was turned down.
SegmentsPartitionWitness ==
    /\ segPc = "done"
    /\ Len(finalMatches) >= 2
    /\ Len(segments) >= 3
    /\ \E m \in {findMatches(segText, lookupMaps(segTerms, segMode).weakMap,
                             TRUE, segMode).matches} :
          \E i \in 1..Len(m) : \E k \in 1..Len(finalMatches) :
              /\ m[i].start < finalMatches[k].end
              /\ finalMatches[k].start < m[i].end
              /\ <<m[i].start, m[i].end>> # <<finalMatches[k].start, finalMatches[k].end>>

\* The descriptors of map whose pattern matches text at offset o
KeysMatchingAt(ds, text, o) ==
    {i \in 1..Len(ds) : MatchEnd(ds[i].pattern, text, o) # NoMatch}

LongestKeyAt(ds, text, o) ==
    CHOOSE i \in KeysMatchingAt(ds, text, o) :
        \A j \in KeysMatchingAt(ds, text, o) : ds[i].length >= ds[j].length

\* The accepted matches that start at offset o are the match of the longest
\* of the keys of ds that match there, with that key's term, or are among
\* the matches other
LongestWinsAt(ds, text, o, other) ==
    Cardinality(KeysMatchingAt(ds, text, o)) >= 2 =>
        \A k \in 1..Len(finalMatches) :
            finalMatches[k].start = o =>
                \/ \E n \in 1..Len(other) : other[n] = finalMatches[k]
                \/ /\ finalMatches[k].end =
                         MatchEnd(ds[LongestKeyAt(ds, text, o)].pattern, text, o)
                   /\ finalMatches[k].term = ds[LongestKeyAt(ds, text, o)].term

CoveredAt(o) ==
    \E k \in 1..Len(finalMatches) :
        finalMatches[k].start <= o /\ o < finalMatches[k].end

LongestMatchIn(strongDs, weakDs, strongAccepted) ==
    \A o \in 0..(Len(segText) - 1) :
        /\ LongestWinsAt(strongDs, segText, o, <<>>)
        /\ Cardinality(KeysMatchingAt(strongDs, segText, o)) >= 2 => CoveredAt(o)
        /\ LongestWinsAt(weakDs, segText, o, strongAccepted)

\* C2: whenever two keys of one lookup map both match the text at the same
\* offset, the matched segment that starts at that offset is the match of the
\* longer key, attributed to the longer key's term, never the match of the
\* shorter key followed by the leftover characters; with two such strong
\* keys the offset is always inside a matched segment.
LongestMatchPriority ==
    segPc = "done" =>
        \E maps \in {lookupMaps(segTerms, segMode)} :
            LongestMatchIn(descriptors(maps.strongMap, segMode),
                           descriptors(maps.weakMap, segMode),
                           strongPass(segText, maps.strongMap, segMode).accepted)

\* A call on a text where two strong keys match at one offset, the shorter
\* one ending before the longer one, and the segment there is the longer.
LongestMatchWitness ==
    /\ segPc = "done"
    /\ \E ds \in {descriptors(lookupMaps(segTerms, segMode).strongMap, segMode)} :
          \E o \in 0..(Len(segText) - 1) :
              /\ \E i, j \in KeysMatchingAt(ds, segText, o) :
                    /\ MatchEnd(ds[i].pattern, segText, o)
                          < MatchEnd(ds[j].pattern, segText, o)
                    /\ ds[i].term.id # ds[j].term.id
              /\ \E k \in 1..Len(finalMatches) :
                    /\ finalMatches[k].start = o
                    /\ finalMatches[k].end =
                          MatchEnd(ds[LongestKeyAt(ds, segText, o)].pattern, segText, o)
                    /\ finalMatches[k].term = ds[LongestKeyAt(ds, segText, o)].term

(***************************************************************************)
(* Claims about translateText.                                             *)
(***************************************************************************)
\* C10: a translateText call in fast mode on a text whose token estimate is
\* at most maxTokensPerChunk makes exactly one completion call, the Draft
\* call, and no Review, Polish or Align call; when that call has returned
\* the result has finalText, the cleaned draft, and neither reflectionNotes
\* nor alignments.
FastSingleChunkOneCall ==
    (trMode = "fast" /\ getTokenCount(trText) <= trMaxTokens) =>
        /\ Len(trCalls) <= 1
        /\ \A k \in 1..Len(trCalls) :
              trCalls[k].step = "Draft" /\ trCalls[k].source = trText
        /\ trPc \in {"await", "returned", "failed"} => Len(trCalls) = 1
        /\ trPc # "start" => trPc \in {"await", "returned", "failed"}
        /\ trPc = "await" => trStep = "Draft"
        /\ trPc = "returned" =>
              /\ DOMAIN trResult = {"finalText"}
              /\ \E answer \in CompletionTexts : trResult.finalText = cleanup(answer)
        /\ trPc # "returned" => trResult = <<>>

\* A fast call on a text of two characters within the budget that returned.
FastSingleChunkWitness ==
    /\ trMode = "fast"
    /\ Len(trText) = 2
    /\ 0 < getTokenCount(trText)
    /\ getTokenCount(trText) <= trMaxTokens
    /\ trPc = "returned"
    /\ Len(trCalls) = 1
    /\ trResult.finalText # <<>>

\* The alignments an Align call gave to translateText
Given(entry) == IF entry.answer.json = "array" THEN entry.answer.value ELSE <<>>

\* The length of the chunks before chunk i (i from 0)
SourceOffsetOf(i) == Len(Concat(SubSeq(trChunks, 1, i)))

\* The length of the translations before chunk i in the joined text
RECURSIVE TargetOffsetOf(_)
TargetOffsetOf(i) ==
    IF i = 0 THEN 0 ELSE TargetOffsetOf(i - 1) + Len(trResults[i]) + 2

\* The spans (field "sourceSpans" or "targetSpans") of term t in the
\* alignments als of one chunk, in their order, moved by offset
RECURSIVE SpansOfTerm(_, _, _, _)
SpansOfTerm(als, t, field, offset) ==
    IF als = <<>> THEN <<>>
    ELSE SpansOfTerm(Front(als), t, field, offset)
         \o (IF Last(als).termId = t
             THEN [k \in 1..Len(Last(als)[field]) |->
                      [start |-> Last(als)[field][k].start + offset,
                       end |-> Last(als)[field][k].end + offset]]
             ELSE <<>>)

\* The spans of term t that the Align calls of log gave, in chunk order
RECURSIVE ExpectedSpans(_, _, _)
ExpectedSpans(log, t, field) ==
    IF log = <<>> THEN <<>>
    ELSE ExpectedSpans(Front(log), t, field)
         \o SpansOfTerm(Given(Last(log)), t, field,
                        IF field = "sourceSpans" THEN SourceOffsetOf(Last(log).chunk)
                        ELSE TargetOffsetOf(Last(log).chunk))

\* C11: in a professional multi-chunk call that returned, the alignment list
\* has one entry per term identifier the Align calls gave, and that entry
\* holds all the source spans and all the target spans given for the term,
\* in chunk order, each moved by the offsets of its chunk.
MergedAlignmentsPerTerm ==
    (trPc = "returned" /\ trMode = "professional" /\ ~SingleChunk) =>
        /\ \A i, j \in 1..Len(trResult.alignments) :
              trResult.alignments[i].termId = trResult.alignments[j].termId => i = j
        /\ \A i \in 1..Len(trResult.alignments) :
              /\ \E n \in 1..Len(trAlignLog) : \E k \in 1..Len(Given(trAlignLog[n])) :
                    Given(trAlignLog[n])[k].termId = trResult.alignments[i].termId
              /\ trResult.alignments[i].sourceSpans =
                    ExpectedSpans(trAlignLog, trResult.alignments[i].termId, "sourceSpans")
              /\ trResult.alignments[i].targetSpans =
                    ExpectedSpans(trAlignLog, trResult.alignments[i].termId, "targetSpans")
        /\ \A n \in 1..Len(trAlignLog) : \A k \in 1..Len(Given(trAlignLog[n])) :
              \E i \in 1..Len(trResult.alignments) :
                  trResult.alignments[i].termId = Given(trAlignLog[n])[k].termId

\* A call over two chunks whose Align calls both gave term t1, one of them
\* twice, returned with the four spans of t1 in one entry.
MergedAlignmentsWitness ==
    /\ trPc = "returned" /\ trMode = "professional"
    /\ Len(trChunks) = 2
    /\ Len(trAlignLog) = 2
    /\ Len(Given(trAlignLog[1])) = 3
    /\ Len(Given(trAlignLog[2])) = 3
    /\ \E i \in 1..Len(trResult.alignments) :
          /\ trResult.alignments[i].termId = "t1"
          /\ Len(trResult.alignments[i].sourceSpans) = 4
          /\ Len(trResult.alignments[i].targetSpans) = 4

(***************************************************************************)
(* calculateChunkSize on its own: a total and a target of at least one.    *)
(***************************************************************************)
SizeInit ==
    /\ sizeTotal \in 0..MaxTotalTokens
    /\ sizeTarget \in 1..MaxTargetPerChunk
    /\ sizeResult = 0
    /\ sizePc = "call"
    /\ ChunkIdle /\ TokIdle /\ CompIdle /\ SegIdle /\ TrIdle /\ UiIdle

SizeCall ==
    /\ sizePc = "call"
    /\ sizeResult' = calculateChunkSize(sizeTotal, sizeTarget)
    /\ sizePc' = "done"
    /\ UNCHANGED <<sizeTotal, sizeTarget, notSizeVars>>

SizeNext == SizeCall

SpecSize == SizeInit /\ [][SizeNext]_vars

(***************************************************************************)
(* Claims about handleTranslate.                                           *)
(***************************************************************************)
Shown == <<translatedText, reflectionNotes, uiAlignments, uiError>>

\* Request k settles in this step: translateText resolved or rejected
Settles(k) == requests[k].status = "pending" /\ requests'[k].status # "pending"

\* C12: every invocation that goes on takes a sequence number greater than
\* all earlier ones, and a request that settles when its number is no longer
\* the counter changes none of translatedText, reflectionNotes, alignments
\* and error; between invocations only the request whose number is the
\* counter writes them.
StaleRequestsWriteNothing ==
    [][ /\ requestRef' >= requestRef
        /\ \A k \in 1..Len(requests) : requests[k].requestId <= requestRef
        /\ Len(requests') > Len(requests) =>
              /\ requestRef' > requestRef
              /\ Last(requests').requestId = requestRef'
              /\ \A k \in 1..Len(requests) :
                    requests[k].requestId < Last(requests').requestId
        /\ \A k \in 1..Len(requests) :
              (Len(requests') = Len(requests) /\ Settles(k)
               /\ requests[k].requestId # requestRef)
                 => Shown' = Shown
        /\ (Shown' # Shown /\ requestRef' = requestRef)
              => \E k \in 1..Len(requests) :
                    /\ Len(requests') = Len(requests)
                    /\ Settles(k)
                    /\ requests[k].requestId = requestRef
      ]_vars

\* The first request resolved after the second was issued, and nothing of it
\* is shown while the second is in flight.
StaleRequestWitness ==
    /\ Len(requests) = 2
    /\ requestRef = 2
    /\ requests[1].status = "resolved"
    /\ requests[2].status = "pending"
    /\ translatedText = <<>>
    /\ isLoading

(***************************************************************************)
(* Claims about failures of the completion calls of translateText.         *)
(***************************************************************************)
\* The Align call of some chunk has thrown
AlignCallThrew == \E k \in 1..Len(trAlignLog) : trAlignLog[k].answer = Thrown

\* C13: a completion call that fails in any step, the Align step included,
\* makes translateText fail with that error: it returns nothing and starts no
\* later step or chunk.
CompletionFailureAborts ==
    /\ trPc = "failed" => trError \in CompletionErrors
    /\ AlignCallThrew => /\ trPc = "failed"
                         /\ trError \in CompletionErrors

\* The Align call of this step was answered with text that is no JSON array
UnparseableAlignAnswer ==
    /\ Len(trAlignLog') = Len(trAlignLog) + 1
    /\ Last(trAlignLog').answer.json \in {"object", "invalid"}

\* C14: in professional mode an Align answer that is no JSON array gives the
\* chunk an empty alignment list: no error is raised, translateText goes on
\* (returns, or starts the next chunk), the merged alignments are as before,
\* and what is returned holds the polished text and the review notes.
UnparseableAlignIsEmpty ==
    [][ UnparseableAlignAnswer =>
          /\ trMode = "professional"
          /\ trError' = <<>>
          /\ trPc' \in {"returned", "await"}
          /\ trAllAlignments' = trAllAlignments
          /\ (SingleChunk => /\ trPc' = "returned"
                             /\ trResult' = [finalText |-> trImproved,
                                             reflectionNotes |-> trReflection,
                                             alignments |-> <<>>])
          /\ (~SingleChunk /\ trPc' = "returned") =>
                /\ Last(trResults) = trImproved
                /\ trResult' = [finalText |-> Join(trResults),
                                reflectionNotes |-> Join(trReflections),
                                alignments |-> trAllAlignments]
      ]_vars

\* A request of one chunk has returned after an Align answer that was no
\* JSON array, with a polished text and no alignment
UnparseableAlignWitness ==
    /\ SingleChunk
    /\ trPc = "returned"
    /\ Len(trAlignLog) = 1
    /\ trAlignLog[1].answer.json \in {"object", "invalid"}
    /\ trImproved # <<>>
    /\ trResult.finalText = trImproved
    /\ trResult.alignments = <<>>

(***************************************************************************)
(* Claims about calculateChunkSize.                                        *)
(***************************************************************************)
\* The least integer q with q * b >= a, for a >= 0 and b >= 1
Ceil(a, b) == CHOOSE q \in 0..a : q * b >= a /\ (q = 0 \/ (q - 1) * b < a)

\* C15: calculateChunkSize(total, target) is total when total <= target and
\* ceil(total / ceil(total / target)) otherwise; for total > target >= 1 the
\* result r has 1 <= r <= target and r * ceil(total / target) >= total.
ChunkSizeEven ==
    sizePc = "done" =>
        IF sizeTotal <= sizeTarget
        THEN sizeResult = sizeTotal
        ELSE /\ sizeResult = Ceil(sizeTotal, Ceil(sizeTotal, sizeTarget))
             /\ 1 <= sizeResult
             /\ sizeResult <= sizeTarget
             /\ sizeResult * Ceil(sizeTotal, sizeTarget) >= sizeTotal

\* A total that its target does not divide, cut into three parts
ChunkSizeWitness ==
    /\ sizePc = "done"
    /\ sizeTotal > 2 * sizeTarget
    /\ sizeTotal < 3 * sizeTarget
    /\ sizeResult < sizeTarget
    /\ sizeResult * 3 > sizeTotal

(***************************************************************************)
(* Claims about the passes and the maps of buildTermSegments.              *)
(***************************************************************************)
\* The span of every occurrence of every key of ds in text, overlapping
\* occurrences included
OccurrenceSpans(ds, text) ==
    { [start |-> p[2], end |-> MatchEnd(ds[p[1]].pattern, text, p[2])] :
        p \in { q \in (1..Len(ds)) \X (0..(Len(text) - 1)) :
                   MatchEnd(ds[q[1]].pattern, text, q[2]) > q[2] } }

SpansOverlap(a, b) == a.start < b.end /\ b.start < a.end

\* The greedy selection: longest first, then leftmost, each span accepted
\* when it overlaps no accepted one
RECURSIVE GreedySpans(_, _)
GreedySpans(spans, accepted) ==
    IF spans = {} THEN accepted
    ELSE LET m == CHOOSE x \in spans :
                     \A y \in spans : x = y \/ Before("span", x, y)
         IN  GreedySpans(spans \ {m},
                         IF \E a \in accepted : SpansOverlap(a, m)
                         THEN accepted ELSE accepted \cup {m})

SpansOf(ms) == { [start |-> ms[k].start, end |-> ms[k].end] : k \in 1..Len(ms) }

\* C16: the strong pass accepts exactly the spans that the greedy selection
\* over all the occurrences of the strong keys in the text accepts, so that a
\* longer occurrence wins over a shorter one that starts before it and
\* overlaps it.
StrongPassGreedyOverAll ==
    segPc = "done" =>
        \E maps \in {lookupMaps(segTerms, segMode)} :
            SpansOf(strongPass(segText, maps.strongMap, segMode).accepted)
              = GreedySpans(OccurrenceSpans(descriptors(maps.strongMap, segMode),
                                            segText), {})

\* The span of segment i in the text
SegSpan(i) == [start |-> SegStart(i), end |-> SegStart(i) + Len(segments[i].text)]

\* C17: a matched segment carries the kind of the map it was found through:
\* 'strong' when the strong pass accepted its match, 'weak' when the weak
\* pass did; a plain segment has no match kind.
MatchKindFollowsMap ==
    segPc = "done" =>
        \E strongSpans \in
             {SpansOf(strongPass(segText, lookupMaps(segTerms, segMode).strongMap,
                                 segMode).accepted)} :
            \A i \in 1..Len(segments) :
                IF segments[i].matchedTerm = NoTerm
                THEN segments[i].matchType = "none"
                ELSE segments[i].matchType =
                        (IF SegSpan(i) \in strongSpans THEN "strong" ELSE "weak")

\* C18: once the two maps are built, whatever the order of the terms, no
\* key of the weak map is a key of the strong map.
LookupMapsDisjoint ==
    (segPc = "done" /\ segText # <<>>) =>
        \E maps \in {lookupMaps(segTerms, segMode)} :
            \A i \in 1..Len(maps.weakMap) :
                ~MapHas(maps.strongMap, maps.weakMap[i].key)

(***************************************************************************)
(* Claims about the glossary of handleTranslate.                           *)
(***************************************************************************)
\* C19: the glossary a request hands to translateText holds an entry only
\* for a phrase matched through a primary label or an alias (a match of the
\* strong pass), and the terms handed to the Align step are terms of such
\* matches; a phrase matched through a core-concept string only gives
\* neither.
GlossaryFromStrongMatchesOnly ==
    \A k \in 1..Len(requests) :
        \E strong \in {strongPass(inputText,
                                  lookupMaps(allTerms, SegmentMode).strongMap,
                                  SegmentMode).accepted} :
            /\ \A g \in 1..Len(requests[k].glossary) :
                  \E m \in 1..Len(strong) :
                      /\ strong[m].text = requests[k].glossary[g].source
                      /\ strong[m].term.id = requests[k].glossary[g].id
            /\ \A r \in 1..Len(requests[k].relevantTerms) :
                  \E m \in 1..Len(strong) :
                      strong[m].term.id = requests[k].relevantTerms[r].id

(***************************************************************************)
(* Claims about the occurrence index.                                      *)
(***************************************************************************)
\* The matched segments before segment i that carry the term of segment i
EarlierOfSameTerm(i) ==
    { j \in 1..(i - 1) : /\ segments[j].matchedTerm # NoTerm
                         /\ segments[j].matchedTerm.id = segments[i].matchedTerm.id }

\* C20: the termOccurrenceIndex of a matched segment is the number of matched
\* segments before it with the same term id, whichever pass found them: per
\* term the indices run 0, 1, 2, ... in text order.
OccurrenceIndexCounts ==
    segPc = "done" =>
        \A i \in 1..Len(segments) :
            segments[i].matchedTerm # NoTerm =>
                segments[i].termOccurrenceIndex = Cardinality(EarlierOfSameTerm(i))

\* A term found by the strong pass and again, later in the text, by the weak
\* pass, with a segment of another term before the second occurrence
OccurrenceIndexWitness ==
    /\ segPc = "done"
    /\ \E strongSpans \in
            {SpansOf(strongPass(segText, lookupMaps(segTerms, segMode).strongMap,
                                segMode).accepted)} :
          \E i, j \in 1..Len(segments) :
              /\ i < j
              /\ segments[i].matchedTerm # NoTerm
              /\ segments[j].matchedTerm # NoTerm
              /\ segments[i].matchedTerm.id = segments[j].matchedTerm.id
              /\ SegSpan(i) \in strongSpans
              /\ SegSpan(j) \notin strongSpans
              /\ segments[j].termOccurrenceIndex = 1
              /\ \E n \in 1..(j - 1) :
                    /\ segments[n].matchedTerm # NoTerm
                    /\ segments[n].matchedTerm.id # segments[j].matchedTerm.id

(***************************************************************************)
(* Claims about the order of the steps of translateText.                   *)
(***************************************************************************)
WorkflowSteps == <<"Draft", "Review", "Polish", "Align">>

\* C21: in professional mode on a single chunk the calls are Draft, Review,
\* Polish, Align in this order, one at a time; Review is given the Draft
\* output, Polish the Draft output and the Review critique, Align the Polish
\* output, and the result holds the Polish output, the Review output and the
\* Align output.
ProfessionalSingleChunkOrder ==
    (trMode = "professional" /\ SingleChunk /\ trPc # "start") =>
        /\ Len(trCalls) \in 1..4
        /\ \A k \in 1..Len(trCalls) :
              /\ trCalls[k].step = WorkflowSteps[k]
              /\ trCalls[k].source = trText
        /\ trPc = "await" => trStep = trCalls[Len(trCalls)].step
        /\ Len(trCalls) >= 2 =>
              /\ trDraft \in {cleanup(answer) : answer \in CompletionTexts}
              /\ trCalls[2].translated = trDraft
        /\ Len(trCalls) >= 3 =>
              /\ trReflection \in CompletionTexts
              /\ trCalls[3].translated = trDraft
              /\ trCalls[3].notes = trReflection
        /\ Len(trCalls) = 4 =>
              /\ trImproved \in {cleanup(answer) : answer \in CompletionTexts}
              /\ trCalls[4].translated = trImproved
        /\ Len(trAlignLog) <= 1
        /\ trAlignLog # <<>> => Len(trCalls) = 4
        /\ trPc = "returned" =>
              /\ Len(trCalls) >= 3
              /\ Len(trCalls) = 4 => Len(trAlignLog) = 1
              /\ trResult = [finalText |-> trImproved,
                             reflectionNotes |-> trReflection,
                             alignments |-> IF trAlignLog = <<>> THEN <<>>
                                            ELSE Given(trAlignLog[1])]

\* A professional call on one chunk that made its four calls and returned
\* the alignments of the Align answer
ProfessionalSingleChunkWitness ==
    /\ trMode = "professional"
    /\ SingleChunk
    /\ trPc = "returned"
    /\ Len(trCalls) = 4
    /\ trCalls[3].notes # <<>>
    /\ trResult.finalText # <<>>
    /\ Len(trResult.alignments) = 3

\* The place of a status label in the workflow of a chunk
LabelRank(label) ==
    CASE label \in {"Translating...", "Drafting..."} -> 1
      [] label = "Reviewing..." -> 2
      [] label = "Polishing..." -> 3
      [] label \in {"Aligning...", "Aligning Terms..."} -> 4

StepRank(step) == CHOOSE k \in 1..4 : WorkflowSteps[k] = step

\* The calls and the statuses so far are in document order (each one before
\* the next in the order of chunk, then step), and the call awaited is the
\* last one made
SequentialSoFar ==
    /\ \A j \in 1..(Len(trCalls) - 1) :
          \/ trCalls[j].chunk < trCalls[j + 1].chunk
          \/ /\ trCalls[j].chunk = trCalls[j + 1].chunk
             /\ StepRank(trCalls[j].step) < StepRank(trCalls[j + 1].step)
    /\ \A j \in 1..(Len(trProgress) - 1) :
          \/ trProgress[j].part < trProgress[j + 1].part
          \/ /\ trProgress[j].part = trProgress[j + 1].part
             /\ LabelRank(trProgress[j].label) < LabelRank(trProgress[j + 1].label)
    /\ \A k \in 1..Len(trCalls) : trCalls[k].chunk <= trI
    /\ \A k \in 1..Len(trProgress) : trProgress[k].part <= trI + 1
    /\ trPc = "await" =>
          /\ trCalls # <<>>
          /\ Last(trCalls).chunk = trI
          /\ Last(trCalls).step = trStep
          /\ Last(trProgress).part = trI + 1
          /\ LabelRank(Last(trProgress).label) = StepRank(trStep)

\* What a step adds: at most one call, made when the call awaited has
\* returned, for the chunk in hand after the step; statuses of the chunk in
\* hand before the step, then of the chunk in hand after it
SequentialStep ==
    /\ trI' \in {trI, trI + 1}
    /\ Len(trCalls') \in {Len(trCalls), Len(trCalls) + 1}
    /\ SubSeq(trCalls', 1, Len(trCalls)) = trCalls
    /\ Len(trCalls') > Len(trCalls) =>
          /\ trCalls # <<>> => trPc = "await"
          /\ trPc' = "await"
          /\ Last(trCalls').chunk = trI'
    /\ Len(trProgress') >= Len(trProgress)
    /\ SubSeq(trProgress', 1, Len(trProgress)) = trProgress
    /\ \A k \in (Len(trProgress) + 1)..Len(trProgress') :
          trProgress'[k].part \in {trI + 1, trI' + 1}

\* C22: in a call of several chunks at most one completion call is
\* outstanding, the calls and the progress callbacks of chunk i all come
\* before those of chunk i+1, and the progress callbacks have a
\* non-decreasing chunk index with the steps of a chunk in workflow order.
ChunksInDocumentOrder ==
    /\ [](~SingleChunk /\ trPc \notin {"idle", "start"} => SequentialSoFar)
    /\ [][~SingleChunk => SequentialStep]_vars

\* A professional call of two chunks or more that returned after the four
\* steps of each of two chunks
ChunksInDocumentOrderWitness ==
    /\ ~SingleChunk
    /\ trMode = "professional"
    /\ trPc = "returned"
    /\ Len(trChunks) >= 2
    /\ Len(trCalls) >= 8
    /\ Len(trProgress) >= 8
    /\ trCalls[4].chunk = 0
    /\ trCalls[5].chunk = 1

(***************************************************************************)
(* Claims about the spans of the merged alignments.                        *)
(***************************************************************************)
\* The entry of term t in the returned alignments holds the span
HasSpan(t, field, span) ==
    \E i \in 1..Len(trResult.alignments) :
        /\ trResult.alignments[i].termId = t
        /\ \E k \in 1..Len(trResult.alignments[i][field]) :
              trResult.alignments[i][field][k] = span

\* C23: in a professional call of several chunks that returned, a target
\* span [s, e) that the Align step gave for chunk i, inside the translation
\* of the chunk, is returned as [s + off, e + off), off being the sum over
\* the earlier chunks of the translated length plus 2, and selects in
\* finalText the characters that [s, e) selects in the translation of chunk i.
TargetSpansValid ==
    (trPc = "returned" /\ trMode = "professional" /\ ~SingleChunk) =>
        \A n \in 1..Len(trAlignLog) :
            \A a \in 1..Len(Given(trAlignLog[n])) :
                \A k \in 1..Len(Given(trAlignLog[n])[a].targetSpans) :
                    \E i \in {trAlignLog[n].chunk} :
                    \E span \in {Given(trAlignLog[n])[a].targetSpans[k]} :
                        span.end <= Len(trResults[i + 1]) =>
                            /\ HasSpan(Given(trAlignLog[n])[a].termId, "targetSpans",
                                       [start |-> span.start + TargetOffsetOf(i),
                                        end |-> span.end + TargetOffsetOf(i)])
                            /\ Slice(trResult.finalText,
                                     span.start + TargetOffsetOf(i),
                                     span.end + TargetOffsetOf(i))
                                 = Slice(trResults[i + 1], span.start, span.end)

\* A call of two chunks returned, with a target span of the second chunk
\* that selects the whole of its translation
TargetSpansWitness ==
    /\ trPc = "returned" /\ trMode = "professional"
    /\ Len(trChunks) = 2
    /\ Len(trAlignLog) = 2
    /\ trAlignLog[2].chunk = 1
    /\ Len(trResults[1]) = 2
    /\ \E a \in 1..Len(Given(trAlignLog[2])) :
          \E k \in 1..Len(Given(trAlignLog[2])[a].targetSpans) :
              /\ Given(trAlignLog[2])[a].targetSpans[k] = [start |-> 0, end |-> 2]
              /\ HasSpan(Given(trAlignLog[2])[a].termId, "targetSpans",
                         [start |-> 4, end |-> 6])
              /\ Slice(trResult.finalText, 4, 6) = trResults[2]

\* C24: in a professional call of several chunks that returned, a source
\* span [s, e) that the Align step gave for chunk i, inside the chunk, is
\* returned moved by the summed lengths of the earlier chunks and selects in
\* sourceText the characters that [s, e) selects in chunk i.
SourceSpansValid ==
    (trPc = "returned" /\ trMode = "professional" /\ ~SingleChunk) =>
        \A n \in 1..Len(trAlignLog) :
            \A a \in 1..Len(Given(trAlignLog[n])) :
                \A k \in 1..Len(Given(trAlignLog[n])[a].sourceSpans) :
                    \E i \in {trAlignLog[n].chunk} :
                    \E span \in {Given(trAlignLog[n])[a].sourceSpans[k]} :
                        span.end <= Len(trChunks[i + 1]) =>
                            /\ HasSpan(Given(trAlignLog[n])[a].termId, "sourceSpans",
                                       [start |-> span.start + SourceOffsetOf(i),
                                        end |-> span.end + SourceOffsetOf(i)])
                            /\ span.end + SourceOffsetOf(i) <= Len(trText)
                            /\ Slice(trText,
                                     span.start + SourceOffsetOf(i),
                                     span.end + SourceOffsetOf(i))
                                 = Slice(trChunks[i + 1], span.start, span.end)

(***************************************************************************)
(* Claims about the backoff of getCompletion.                              *)
(***************************************************************************)
\* C25: within one getCompletion call the first attempt is made with no
\* wait; retry n (n = 2, 3, 4) is made after a wait of 1 s, 2 s and 4 s that
\* follows the quota failure of attempt n - 1 and precedes the retry; there
\* is no wait after the last attempt.
BackoffBeforeRetry ==
    /\ Len(waits) <= MAX_RETRIES
    /\ \A k \in 1..Len(waits) :
          /\ waits[k] = 1000 * 2 ^ (k - 1)
          /\ k <= Len(outcomes)
          /\ ~outcomes[k].ok
          /\ isQuotaError(outcomes[k].error)
    /\ providerCalls = Len(outcomes)
    /\ compPc = "invoke" =>
          /\ Len(waits) = attempt
          /\ compConfig.provider # "other" => Len(outcomes) = attempt
    /\ compPc = "loop" =>
          /\ Len(outcomes) = attempt
          /\ Len(waits) = IF attempt = 0 THEN 0 ELSE attempt - 1
    /\ compPc \in {"returned", "failed"} =>
          /\ Len(waits) = attempt
          /\ outcomes # <<>> => Len(waits) = Len(outcomes) - 1

\* A call whose four attempts all met the quota: three waits, then the error
BackoffWitness ==
    /\ compPc = "failed"
    /\ compError = QUOTA_EXCEEDED
    /\ providerCalls = 4
    /\ waits = <<1000, 2000, 4000>>

(***************************************************************************)
(* Claims about the recursion of the chunker.                              *)
(***************************************************************************)
\* The texts of the activations of splitSegmentRecursively down to depth n
\* under the activations of the set called
RECURSIVE Activations(_, _, _)
Activations(called, maxLimit, n) ==
    IF n = 0 THEN called
    ELSE Activations(called \cup UNION {recursiveCalls(s, maxLimit) : s \in called},
                     maxLimit, n - 1)

\* C26: splitTextIntoChunks returns a list for every text and budget, the
\* budgets 0 and 1 and the texts with no delimiter included: every call
\* splitSegmentRecursively makes on itself, directly or through
\* regroupChunks, is on a text strictly shorter than its own, and an
\* activation on a text of one character makes none.
SplitRecursionDescends ==
    chunkPc = "done" =>
        /\ DOMAIN chunks = 1..Len(chunks)
        /\ \A s \in Activations(firstCalls(chunkText, chunkBudget), chunkBudget,
                                Len(chunkText)) :
              /\ Len(s) <= Len(chunkText)
              /\ \A c \in recursiveCalls(s, chunkBudget) : Len(c) < Len(s)
              /\ Len(s) <= 1 => recursiveCalls(s, chunkBudget) = {}

\* A call whose recursion went down to a text of one character that is
\* over the budget, from a text with no delimiter
SplitRecursionWitness ==
    /\ chunkPc = "done"
    /\ Len(chunkText) = 4
    /\ ~HasChar(chunkText, SentenceDelims \cup ClauseDelims \cup ParagraphDelims)
    /\ \E s \in Activations(firstCalls(chunkText, chunkBudget), chunkBudget,
                            Len(chunkText)) :
          Len(s) = 1 /\ getTokenCount(s) > chunkBudget
    /\ Len(chunks) = 4

(***************************************************************************)
(* Claims about the cuts of the chunker.                                   *)
(***************************************************************************)
\* What ends a sentence: a sentence delimiter or the newline of a paragraph
SentenceEnds == SentenceDelims \cup ParagraphDelims

\* The sentences of a text without their delimiters: the maximal runs of
\* characters that end no sentence, in text order
IsSentenceBody(run) == run[1] \notin SentenceEnds

SentencesOf(text) == SelectSeq(Runs(text, SentenceEnds), IsSentenceBody)

\* The sentences of the chunks, chunk after chunk
RECURSIVE SentencesOfAll(_)
SentencesOfAll(cs) ==
    IF cs = <<>> THEN <<>> ELSE SentencesOfAll(Front(cs)) \o SentencesOf(Last(cs))

\* The text is over the budget and each of its sentences fits it
OnlySentenceCutsNeeded ==
    /\ getTokenCount(chunkText) > chunkBudget
    /\ \A k \in 1..Len(SentencesOf(chunkText)) :
          getTokenCount(SentencesOf(chunkText)[k]) <= chunkBudget

BuildTermSegmentsReturns == segPc # "hang"


(***************************************************************************)
(* Overlapping requests and the step status                                *)
(***************************************************************************)
CurrentInFlight ==
    \E k \in 1..Len(requests) : Pending(k) /\ IsCurrent(requests[k].requestId)

Settled(requestId) ==
    \E k \in 1..Len(requests) :
       requests[k].requestId = requestId /\ requests[k].status # "pending"

\* Every request that was issued settles: a settled request stays settled,
\* so time and again all the requests issued so far have settled
EveryRequestSettles ==
    []<>(\A requestId \in 1..requestRef : Settled(requestId))

\* C30: isLoading is true exactly from the acceptance of a request until the
\* request holding the current sequence number settles; a stale request that
\* settles leaves isLoading as it is; the step in which the latest request
\* settles, with a result or an error, sets isLoading to false and clears
\* stepStatus; and if every issued request eventually settles, a component
\* that is loading eventually stops loading.
LoadingFollowsLatest ==
    /\ [](isLoading <=> (requestRef > 0 /\ ~Settled(requestRef)))
    /\ [][\A k \in 1..Len(requests) :
            (Len(requests') = Len(requests) /\ Settles(k)) =>
               IF requests[k].requestId = requestRef
               THEN ~isLoading' /\ stepStatus' = <<>>
               ELSE isLoading' = isLoading]_vars
    /\ (EveryRequestSettles => (isLoading ~> ~isLoading))

\* The stale first request resolved while the second was in flight, then the
\* second was rejected: the component has stopped loading.
LoadingFollowsLatestWitness ==
    /\ Len(requests) = 2
    /\ requestRef = 2
    /\ requests[1].status = "resolved"
    /\ requests[2].status = "rejected"
    /\ ~isLoading
    /\ stepStatus = <<>>

====
